---- MODULE Spec2Model ----
(***************************************************************************)
(* Batch update of Plex "added date" values: the command line driver       *)
(* (src/src/cli.py) and the Streamlit item list (src/src/ui_render.py).    *)
(* Times are integers in milliseconds.  Every remote call, sleep and       *)
(* report of the running pass is appended to the history variable log.     *)
(***************************************************************************)
EXTENDS Integers, Sequences, FiniteSets, TLC

\* ---- bounds of the model ----
MaxTargets == 2
MaxCatalog == 2
MaxPageSize == 2

\* ---- program constants ----
MaxAttempts == 4
BackoffCapMs == 8000
BackoffBaseMs == 500
MinuteMs == 60000

Ids == {"a", "b"}

\* Python None for optional values: an option is <<>> or <<x>>
None == <<>>
Some(x) == <<x>>
\* truth value of an optional number (None and 0 are falsy)
Truthy(o) == o # None /\ o[1] # 0

Max(x, y) == IF x >= y THEN x ELSE y
Min(x, y) == IF x <= y THEN x ELSE y

RECURSIVE Pow2(_)
Pow2(n) == IF n <= 0 THEN 1 ELSE 2 * Pow2(n - 1)

\* ---- history of the running pass ----
Ev(op, id, n, m) ==
    [op |-> op, id |-> id, n |-> n, m |-> m, items |-> <<>>, kept |-> <<>>, sent |-> {},
     unix |-> 0, lock |-> FALSE]

\* one call of plex.update_added_date for target i, attempt k, with the date
\* and the lock flag it was given
CallEv(op, rk, i, k, unix, lock) ==
    [Ev(op, rk, i, k) EXCEPT !.unix = unix, !.lock = lock]

\* one call of plex.fetch_items that returned: the offset asked for, the page
\* served, what the title filter left of it, and the names of the filters
\* that went out with the request
FetchEv(st, pg, kept, sent) ==
    [Ev("fetch", "", st, Len(pg)) EXCEPT !.items = pg, !.kept = kept, !.sent = sent]

\* ---- the selection mapping: a Python dict, kept in insertion order ----
RECURSIVE DictHas(_, _)
DictHas(d, k) ==
    IF d = <<>> THEN FALSE
    ELSE IF Head(d).k = k THEN TRUE ELSE DictHas(Tail(d), k)

\* d[k] = v : an existing key keeps its position, a new key goes last
DictSet(d, k, v) ==
    IF DictHas(d, k)
    THEN [i \in 1..Len(d) |-> IF d[i].k = k THEN [k |-> k, v |-> v] ELSE d[i]]
    ELSE Append(d, [k |-> k, v |-> v])

\* variant: every key of the mapping, whatever its value
RECURSIVE TrueKeys_AllKeys(_)
TrueKeys_AllKeys(d) ==
    IF d = <<>> THEN <<>> ELSE <<Head(d).k>> \o TrueKeys_AllKeys(Tail(d))

RECURSIVE TrueKeys(_)
\* [k for k, v in selected.items() if v]
TrueKeys(d) ==
    IF d = <<>> THEN <<>>
    ELSE IF Head(d).v THEN <<Head(d).k>> \o TrueKeys(Tail(d))
         ELSE TrueKeys(Tail(d))

RECURSIVE DictGet(_, _)
\* selected.get(k, False)
DictGet(d, k) ==
    IF d = <<>> THEN FALSE
    ELSE IF Head(d).k = k THEN Head(d).v ELSE DictGet(Tail(d), k)

\* variant: every key counts
CountTrue_AllKeys(d) == Len(d)

\* sum(1 for v in selected.values() if v)
CountTrue(d) == Cardinality({ i \in 1..Len(d) : d[i].v })

\* st.caption(f"Selected: {total_selected}")
Caption(l, d) == Append(l, Ev("caption", "", CountTrue(d), 0))

VARIABLES
    driver,         \* "cli": one run of cli.main; "ui": a Streamlit session
    pc,             \* position of the running code
    args,           \* the parsed command line (cli)
    selected,       \* st.session_state[select_key] (ui)
    catalog,        \* the remote library seen by the running pass: items in
                    \* server order and the reported total
    ui,             \* widget values and parameters of the running pass (ui)
    start,          \* enumeration offset
    page,           \* cli page counter
    ids,            \* resolved target list (cli ids, ui keys)
    idx,            \* position in the target list, from 1
    attempts,       \* failed attempts on the current target
    last_err,       \* 0 = None, else the log position of the call that raised
    updated,        \* cli updated / ui successes
    per_item_sleep, \* effective delay between targets, in ms
    selected_count, \* ui counter of "Select all results"
    exit_code,      \* return value of cli.main, None while running
    log,            \* remote calls, sleeps and reports of the running pass
    session,        \* st.session_state: the selection mapping under each
                    \* select_key (ui)
    active,         \* the list ("movie" or "show") the user works on (ui)
    shown,          \* items: the page of the active list on display (ui)
    boxes,          \* the "Select" checkboxes drawn by the last script run:
                    \* u is the state the browser holds, d the value= the
                    \* widget was drawn with (ui)
    page_select_all,\* the checkbox "Select all on page" (ui)
    touched,        \* counter of _select_range (ui)
    selected0,      \* history: the selection mapping of the active list when
                    \* the running script run began (ui)
    argv,           \* the command line handed to parse_args (cli)
    environ,        \* os.environ after load_dotenv() (cli)
    prev,           \* history: the target list of the last batch of this
                    \* session when every call of it succeeded, else None (ui)
    query_params,   \* the query string of the page URL: each key is absent
                    \* (None) or carries a string of characters (browser)
    qp_api,         \* which Streamlit query API _qp_get reaches (ui)
    page_state,     \* st.session_state["movie_page"] (ui)
    total_pages,    \* pages of the list on display (ui)
    changed,        \* local of _handle_query_nav (ui)
    local_storage,  \* localStorage item ui_density of the origin (browser)
    session_storage,\* sessionStorage item ui_density_boot of the tab (browser)
    ui_density,     \* st.session_state["ui_density"] (ui)
    served,         \* serverDensity and density, as written into the scripts
                    \* of the page the browser holds
    redirects,      \* history: location.replace calls of the bootstrap
                    \* script in this tab session
    new_unix        \* local of main: to_unix(args.date) (cli)

vars == <<driver, pc, args, selected, catalog, ui,
          start, page, ids, idx, attempts, last_err, updated, per_item_sleep,
          selected_count, exit_code, log,
          session, active, shown, boxes, page_select_all, touched, selected0,
          argv, environ, prev,
          query_params, qp_api, page_state, total_pages, changed,
          local_storage, session_storage, ui_density, served, redirects,
          new_unix>>

\* the page URL, the pager and the density of the browser tab
pageVars == <<query_params, qp_api, page_state, total_pages, changed,
              local_storage, session_storage, ui_density, served, redirects>>

\* what lies outside a running pass: the process environment and the page
hostVars == <<argv, environ, new_unix, pageVars>>

loopVars == <<ids, idx, attempts, last_err, updated, per_item_sleep>>

\* what a script run leaves alone while a button handler works
widgetVars == <<active, shown, boxes, page_select_all, selected0>>

\* the whole of the Streamlit session
sessionVars == <<session, active, shown, boxes, page_select_all, touched, selected0>>

\* ---- the remote catalog ----
NoKey == "<missing>"

\* str(it.get("ratingKey")): a missing key reads as None, printed "None"
Str(rk) == IF rk = NoKey THEN "None" ELSE rk

\* seconds in a day
DaySecs == 86400

\* microseconds in a second
Micro == 1000000

\* datetime.time.min and datetime.time.max
TimeMin == [hour |-> 0, minute |-> 0, second |-> 0, microsecond |-> 0]
TimeMax == [hour |-> 23, minute |-> 59, second |-> 59, microsecond |-> 999999]

\* int(datetime.combine(day, t).timestamp()), days counted from the local
\* epoch: int() cuts the microseconds off
Timestamp(day, t) ==
    day * DaySecs + t.hour * 3600 + t.minute * 60 + t.second + (t.microsecond \div Micro)

\* addedAt is optional; the two dated items sit on the first and on the last
\* second of day 1
ItemKinds ==
    { [ratingKey |-> "a", title |-> <<"A">>, addedAt |-> <<DaySecs>>],
      [ratingKey |-> "b", title |-> <<"b">>, addedAt |-> <<2 * DaySecs - 1>>],
      [ratingKey |-> NoKey, title |-> <<"A">>, addedAt |-> <<>>] }

ItemA == [ratingKey |-> "a", title |-> <<"A">>, addedAt |-> <<DaySecs>>]
ItemB == [ratingKey |-> "b", title |-> <<"b">>, addedAt |-> <<2 * DaySecs - 1>>]

SeqsUpTo(S, n) == UNION { [1..k -> S] : k \in 0..n }

\* the reported total need not be the number of items served
Catalogs == [items : SeqsUpTo(ItemKinds, MaxCatalog), total : 0..(MaxCatalog + 1)]

EmptyCatalog == [items |-> <<>>, total |-> 0]

\* PlexAPI.fetch_items: the window [start, start + size) and the reported total
FetchPage(cat, st, size) ==
    IF size <= 0 \/ st >= Len(cat.items) THEN <<>>
    ELSE SubSeq(cat.items, st + 1, Min(st + size, Len(cat.items)))

LowerChar(c) == CASE c = "A" -> "a" [] c = "B" -> "b" [] OTHER -> c
Lower(s) == [i \in 1..Len(s) |-> LowerChar(s[i])]

\* needle in hay
Contains(n, hay) ==
    \E o \in 0..(Len(hay) - Len(n)) : SubSeq(hay, o + 1, o + Len(n)) = n

\* variant: the title is compared as it is spelled
TitleFilter_CaseSensitive(items, n) ==
    SelectSeq(items, LAMBDA i : Contains(n, i.title))

\* [i for i in items if needle in i.get("title", "").lower()]
TitleFilter(items, n) ==
    SelectSeq(items, LAMBDA i : Contains(n, Lower(i.title)))

\* cli: filters = {}; if year: filters["year"] = str(year)
\* ui: filters=({"year": year} if year else None)
FiltersSent(year) == IF year # "" THEN {"year"} ELSE {}

\* start_ts = int(datetime.combine(range_from, time.min).timestamp())
TsFrom(day) == Timestamp(day, TimeMin)

\* end_ts = int(datetime.combine(range_to, time.max).timestamp())
TsTo(day) == Timestamp(day, TimeMax)

\* int(it.get("addedAt", 0) or 0)
AddedAt(it) == IF it.addedAt = <<>> THEN 0 ELSE it.addedAt[1]

\* variant: the upper bound is the first second of to_date
InRange_DayStart(it, from, to) == TsFrom(from) <= AddedAt(it) /\ AddedAt(it) <= TsFrom(to)

\* start_ts <= at <= end_ts
InRange(it, from, to) == TsFrom(from) <= AddedAt(it) /\ AddedAt(it) <= TsTo(to)

RangeItems(items, from, to) == SelectSeq(items, LAMBDA i : InRange(i, from, to))

RECURSIVE YieldIds(_)
\* cli: rk = it.get("ratingKey"); if rk is not None: yield str(rk)
YieldIds(items) ==
    IF items = <<>> THEN <<>>
    ELSE (IF Head(items).ratingKey # NoKey
          THEN <<Str(Head(items).ratingKey)>> ELSE <<>>) \o YieldIds(Tail(items))

RECURSIVE SelectItems(_, _)
\* ui: rk = str(it.get("ratingKey")); if rk: selected[rk] = True
SelectItems(d, items) ==
    IF items = <<>> THEN d
    ELSE SelectItems(IF Str(Head(items).ratingKey) # ""
                     THEN DictSet(d, Str(Head(items).ratingKey), TRUE)
                     ELSE d,
                     Tail(items))

\* variant: an item in range is always selected
RECURSIVE MarkItems_AlwaysTrue(_, _, _)
MarkItems_AlwaysTrue(d, items, v) ==
    IF items = <<>> THEN d
    ELSE MarkItems_AlwaysTrue(IF Str(Head(items).ratingKey) # ""
                              THEN DictSet(d, Str(Head(items).ratingKey), TRUE)
                              ELSE d,
                              Tail(items), v)

RECURSIVE MarkItems(_, _, _)
\* ui range: rk = str(it.get("ratingKey")); if rk: selected[rk] = select
MarkItems(d, items, v) ==
    IF items = <<>> THEN d
    ELSE MarkItems(IF Str(Head(items).ratingKey) # ""
                   THEN DictSet(d, Str(Head(items).ratingKey), v)
                   ELSE d,
                   Tail(items), v)

RECURSIVE ClearItems(_, _)
\* ui "Clear page": rk = str(it.get("ratingKey")); if rk in selected:
\* selected[rk] = False
ClearItems(d, items) ==
    IF items = <<>> THEN d
    ELSE ClearItems(IF DictHas(d, Str(Head(items).ratingKey))
                    THEN DictSet(d, Str(Head(items).ratingKey), FALSE)
                    ELSE d,
                    Tail(items))

\* ---- the two lists of the app and their selection stores ----
Lists == {"movie", "show"}
SelectKeys == {"movie_selected", "show_selected"}
Other(l) == IF l = "movie" THEN "show" ELSE "movie"

\* variant: both tabs pass the same key
SelectKey_Movie(l) == "movie_selected"

\* app.py: the select_key each tab hands to _render_items
SelectKey(l) == IF l = "movie" THEN "movie_selected" ELSE "show_selected"

\* the page the other tab has on display
OtherPage == <<ItemA>>

\* ---- the item checkboxes ----
Keys(items) == { Str(items[i].ratingKey) : i \in 1..Len(items) }

\* no checkbox drawn
NoBoxes == [k \in {} |-> [u |-> FALSE, d |-> FALSE]]

\* checked = page_select_all or selected.get(rating_key, False)
Checked(psa, d, k) == psa \/ DictGet(d, k)

\* st.checkbox("Select", key=..., value=checked).  A checkbox that the last
\* script run did not draw starts from value=.  One that it drew returns the
\* state the browser holds; when value= differs from the value= of the last
\* run, the Streamlit release decides whether the widget counts as a new one,
\* which starts from value=, or keeps its state
CheckboxReturns(bx, k, c) ==
    IF k \notin DOMAIN bx THEN {c}
    ELSE IF bx[k].d = c THEN {bx[k].u}
    ELSE {bx[k].u, c}

RECURSIVE WriteBoxes(_, _, _)
\* for item in items: selected[rating_key] = sel
WriteBoxes(d, items, f) ==
    IF items = <<>> THEN d
    ELSE WriteBoxes(DictSet(d, Str(Head(items).ratingKey), f[Str(Head(items).ratingKey)]),
                    Tail(items), f)

\* the other tab draws its page too: nobody touches its checkboxes, so each
\* returns what it wrote in the last run, or selected.get(rk, False) when it is
\* drawn for the first time
RenderOther(d) ==
    WriteBoxes(d, OtherPage, [k \in Keys(OtherPage) |-> DictGet(d, k)])

\* variant: the failed fetch is tried again
OnFetchError_Retry(loop) == loop

\* where the code is after plex.fetch_items raised inside the loop at pc
\* value loop: nothing catches the exception
OnFetchError(loop) == "raised"

\* cli: the loop leaves after this page
CliLastPage(st, size, total) == st + size >= total

\* variant: the end is tested with >
UiLastPage_Late(st, total) == st > total

\* ui: start has already been advanced
UiLastPage(st, total) == st >= total

\* ui: start = 0 before the loop
FirstStart == 0

\* cli: page = 0 before the loop
FirstPage == 0

\* ---- cli: the command line, the environment and the date ----
\* the option strings of parse_args that the model hands in, and one that
\* parse_args does not define
OptionTokens == {"--section-id", "--date", "--ids", "--dry-run", "--no-lock",
                 "--list-sections"}
\* argparse takes a token that begins with "-" for an option
IsOption(t) == t \in OptionTokens

\* --page-size default
PageSizeDefault == 200

\* the namespace of defaults parse_args starts from; section_id and date are
\* required and have none
Defaults ==
    [ids |-> <<>>, max_items |-> None, dry_run |-> FALSE, sleep |-> 0,
     max_per_minute |-> None, page_size |-> PageSizeDefault, year |-> "",
     title_contains |-> <<>>, section_id |-> None, date |-> None, no_lock |-> FALSE,
     base_url |-> None, token |-> None]

\* the longest run of values at the head of the tokens (nargs="*")
RECURSIVE Values(_)
Values(toks) ==
    IF toks = <<>> \/ IsOption(Head(toks)) THEN <<>>
    ELSE <<Head(toks)>> \o Values(Tail(toks))

\* p.parse_args(argv): the namespace, or None when argparse reports a usage
\* error (unknown option, stray value, missing value, missing required
\* option) and raises SystemExit(2)
RECURSIVE ParseFrom(_, _)
ParseFrom(toks, ns) ==
    IF toks = <<>>
    THEN IF ns.section_id = None \/ ns.date = None THEN None ELSE Some(ns)
    ELSE LET h == Head(toks)
             t == Tail(toks)
         IN  CASE h = "--section-id" ->
                    IF t = <<>> \/ IsOption(Head(t)) THEN None
                    ELSE ParseFrom(Tail(t), [ns EXCEPT !.section_id = Some(Head(t))])
               [] h = "--date" ->
                    IF t = <<>> \/ IsOption(Head(t)) THEN None
                    ELSE ParseFrom(Tail(t), [ns EXCEPT !.date = Some(Head(t))])
               [] h = "--ids" ->
                    ParseFrom(SubSeq(t, Len(Values(t)) + 1, Len(t)),
                              [ns EXCEPT !.ids = Values(t)])
               [] h = "--dry-run" -> ParseFrom(t, [ns EXCEPT !.dry_run = TRUE])
               [] h = "--no-lock" -> ParseFrom(t, [ns EXCEPT !.no_lock = TRUE])
               [] OTHER -> None

parse_args(toks) == ParseFrom(toks, Defaults)

\* truth value of an optional string (None and "" are falsy)
NonEmpty(o) == o # None /\ o[1] # <<>>

RECURSIVE RStrip(_, _)
\* str.rstrip(c)
RStrip(t, c) ==
    IF t # <<>> /\ t[Len(t)] = c THEN RStrip(SubSeq(t, 1, Len(t) - 1), c) ELSE t

\* os.environ.get(name, "")
EnvGet(env, name) == IF env[name] = None THEN <<>> ELSE env[name][1]

\* base_url = args.base_url or os.environ.get("PLEX_BASE_URL", "").rstrip("/")
BaseUrl(a, env) ==
    IF NonEmpty(a.base_url) THEN a.base_url[1] ELSE RStrip(EnvGet(env, "PLEX_BASE_URL"), "/")

\* token = args.token or os.environ.get("PLEX_TOKEN", "")
Token(a, env) ==
    IF NonEmpty(a.token) THEN a.token[1] ELSE EnvGet(env, "PLEX_TOKEN")

\* variant: the token is not looked at
CredentialsMissing_UrlOnly(a, env) == BaseUrl(a, env) = <<>>

\* if not base_url or not token
CredentialsMissing(a, env) == BaseUrl(a, env) = <<>> \/ Token(a, env) = <<>>

\* the characters of the date strings the model hands in
Chars(d) ==
    CASE d = "1970-01-02" -> <<"1", "9", "7", "0", "-", "0", "1", "-", "0", "2">>
      [] d = "1970-1-2" -> <<"1", "9", "7", "0", "-", "1", "-", "2">>
      [] d = "1972-02-29" -> <<"1", "9", "7", "2", "-", "0", "2", "-", "2", "9">>
      [] d = "1971-02-29" -> <<"1", "9", "7", "1", "-", "0", "2", "-", "2", "9">>
      [] d = "1970-13-40" -> <<"1", "9", "7", "0", "-", "1", "3", "-", "4", "0">>
      [] d = "19700102" -> <<"1", "9", "7", "0", "0", "1", "0", "2">>
      [] d = "1970-01-023" -> <<"1", "9", "7", "0", "-", "0", "1", "-", "0", "2", "3">>
      [] d = "1970-01-" -> <<"1", "9", "7", "0", "-", "0", "1", "-">>
      [] OTHER -> <<>>

Digits == {"0", "1", "2", "3", "4", "5", "6", "7", "8", "9"}
DigitVal(c) ==
    CASE c = "0" -> 0 [] c = "1" -> 1 [] c = "2" -> 2 [] c = "3" -> 3 [] c = "4" -> 4
      [] c = "5" -> 5 [] c = "6" -> 6 [] c = "7" -> 7 [] c = "8" -> 8 [] OTHER -> 9
AllDigits(t) == t # <<>> /\ \A i \in 1..Len(t) : t[i] \in Digits

RECURSIVE Num(_)
Num(t) == IF t = <<>> THEN 0 ELSE 10 * Num(SubSeq(t, 1, Len(t) - 1)) + DigitVal(t[Len(t)])

RECURSIVE Split(_, _)
\* str.split(sep)
Split(t, sep) ==
    IF \A i \in 1..Len(t) : t[i] # sep THEN <<t>>
    ELSE LET i == CHOOSE j \in 1..Len(t) : t[j] = sep /\ \A k \in 1..(j - 1) : t[k] # sep
         IN  <<SubSeq(t, 1, i - 1)>> \o Split(SubSeq(t, i + 1, Len(t)), sep)

IsLeap(y) == (y % 4 = 0 /\ y % 100 # 0) \/ y % 400 = 0
DaysInMonth(y, m) ==
    CASE m = 2 -> IF IsLeap(y) THEN 29 ELSE 28
      [] m \in {4, 6, 9, 11} -> 30
      [] OTHER -> 31

\* the year timestamps count from
EpochYear == 1970

RECURSIVE DaysBeforeYear(_)
DaysBeforeYear(y) ==
    IF y <= EpochYear THEN 0
    ELSE DaysBeforeYear(y - 1) + (IF IsLeap(y - 1) THEN 366 ELSE 365)

RECURSIVE DaysBeforeMonth(_, _)
DaysBeforeMonth(y, m) ==
    IF m <= 1 THEN 0 ELSE DaysBeforeMonth(y, m - 1) + DaysInMonth(y, m - 1)

\* days from the first day of EpochYear to the date (dates from then on)
DayNumber(dt) == DaysBeforeYear(dt.year) + DaysBeforeMonth(dt.year, dt.month) + dt.day - 1

\* datetime.datetime.strptime(date_str, "%Y-%m-%d"): the date, or None for
\* ValueError.  %Y is four digits, %m and %d one or two digits in range (a
\* leading zero allowed), nothing may be left over, and the day must exist
Strptime(t) ==
    LET parts == Split(t, "-")
    IN  IF Len(parts) # 3 THEN None
        ELSE IF ~(AllDigits(parts[1]) /\ Len(parts[1]) = 4) THEN None
        ELSE IF ~(AllDigits(parts[2]) /\ Len(parts[2]) <= 2 /\ Num(parts[2]) \in 1..12)
             THEN None
        ELSE IF ~(AllDigits(parts[3]) /\ Len(parts[3]) <= 2 /\ Num(parts[3]) \in 1..31)
             THEN None
        ELSE LET dt == [year |-> Num(parts[1]), month |-> Num(parts[2]),
                        day |-> Num(parts[3])]
             IN  IF dt.year < 1 \/ dt.day > DaysInMonth(dt.year, dt.month)
                 THEN None ELSE Some(dt)

\* variant: a date that does not parse becomes the first day of the epoch
to_unix_Default(d) ==
    IF Strptime(Chars(d)) = None THEN Some(0)
    ELSE Some(Timestamp(DayNumber(Strptime(Chars(d))[1]), TimeMin))

\* to_unix(date_str): the timestamp of 00:00:00 of the date, or None when
\* SystemExit("Invalid --date value: ...") is raised
to_unix(d) ==
    IF Strptime(Chars(d)) = None THEN None
    ELSE Some(Timestamp(DayNumber(Strptime(Chars(d))[1]), TimeMin))

\* raise SystemExit(arg): the interpreter prints a string argument and exits
\* with status 1; argparse exits with status 2
SystemExit(msg, status) == Ev("system_exit", msg, status, 0)

\* the date and the lock flag the running batch hands to update_added_date
NewUnix ==
    IF driver = "cli" THEN new_unix ELSE Timestamp(ui.batch_date, TimeMin)
Lock == IF driver = "cli" THEN ~args.no_lock ELSE ui.lock

\* variant: exponent off by one
Backoff_Double(k) == Min(BackoffCapMs, BackoffBaseMs * Pow2(k))

\* ---- the batch loop ----
\* min(8, 0.5 * 2 ** (attempts - 1)) seconds
Backoff(k) == Min(BackoffCapMs, BackoffBaseMs * Pow2(k - 1))

\* variant: one attempt too many
RetryAgain_OneMore(k) == k <= MaxAttempts

\* while attempts < 4
RetryAgain(k) == k < MaxAttempts

\* cli: rate_sleep and per_item_sleep
RateSleep(a) ==
    IF Truthy(a.max_per_minute) /\ a.max_per_minute[1] > 0
    THEN Max(0, MinuteMs \div a.max_per_minute[1])
    ELSE 0

PerItemSleepCli(a) == Max(a.sleep, RateSleep(a))

\* variant: the ui ignores the rate
PerItemSleepUi_NoRate(mpm) == 0

\* ui: (60.0 / max_per_min) if max_per_min and max_per_min > 0 else 0.0
PerItemSleepUi(mpm) ==
    IF mpm # 0 /\ mpm > 0 THEN MinuteMs \div mpm ELSE 0

\* variant: a limit of 0 is a limit
MaxItemsReached_ZeroCounts(a, upd) == a.max_items # None /\ upd >= a.max_items[1]

\* variant: the limit is tested with >
MaxItemsReached_Late(a, upd) == Truthy(a.max_items) /\ upd > a.max_items[1]

\* cli: if args.max_items and updated >= args.max_items: break
MaxItemsReached(a, upd) == Truthy(a.max_items) /\ upd >= a.max_items[1]

\* variant: rounded to the nearest percent
Progress_Rounded(i, total) == (2 * i * 100 + total) \div (2 * total)

\* int(idx * 100 / total_sel)
Progress(i, total) == (i * 100) \div total

\* variant: the first error of the target is kept
KeepErr_First(old, new) == IF old = 0 THEN new ELSE old

\* the error kept for the failure report
KeepErr(old, new) == new

\* variant: the counter is raised before the call
AfterCall_CountBefore(upd, ok) == upd + 1

\* the success counter after one call: updated += 1 follows the call in the try
AfterCall(upd, ok) == IF ok THEN upd + 1 ELSE upd

\* variant: the list is walked from its end
Target_Reversed(l, i) == l[Len(l) + 1 - i]

\* enumerate(ids, start=1): the target at position i
Target(l, i) == l[i]

\* variant: a failed target ends the loop
AfterItem_StopOnFailure(i, n, err) == IF err # 0 THEN n + 1 ELSE i + 1

\* the position the for loop takes after target i of n, whose retry loop
\* ended with err (0 = None)
AfterItem(i, n, err) == i + 1

\* variant: the sleep between targets is skipped after a failed target
ItemTail_NoSleepOnFailure(l, drv, rk, i, n, err, delay) ==
    LET l1 == IF err # 0 THEN Append(l, Ev("failed", rk, err, i)) ELSE l
        l2 == IF drv = "ui" THEN Append(l1, Ev("progress", "", Progress(i, n), i)) ELSE l1
    IN  IF delay # 0 /\ err = 0 THEN Append(l2, Ev("item_sleep", "", delay, i)) ELSE l2

\* what follows the retry loop of one target: the failure report, the ui
\* progress and the sleep between targets
ItemTail(l, drv, rk, i, n, err, delay) ==
    LET l1 == IF err # 0 THEN Append(l, Ev("failed", rk, err, i)) ELSE l
        l2 == IF drv = "ui" THEN Append(l1, Ev("progress", "", Progress(i, n), i)) ELSE l1
    IN  IF delay # 0 THEN Append(l2, Ev("item_sleep", "", delay, i)) ELSE l2

\* variant: the counter goes on from the batch before
StartCount_Carry(p) == IF p = None THEN 0 ELSE Len(p[1])

\* updated = 0 / successes = 0, whatever ran before
StartCount(p) == 0

\* the locals of the for loop before its first iteration
BeginLoop(targets, delay) ==
    /\ ids' = targets
    /\ idx' = 1
    /\ attempts' = 0
    /\ last_err' = 0
    /\ updated' = StartCount(prev)
    /\ per_item_sleep' = delay
    /\ pc' = "loop"

\* variant: a planned update counts as an update
AfterPlanned_Counts(upd) == upd + 1

\* the dry-run branch prints and leaves the counter alone
AfterPlanned(upd) == upd

\* the end of a button handler of the ui: the caption under the buttons shows
\* the count, and the script goes on to draw the list
EndHandler(l, d) == Caption(l, d)

\* the pass is over: cli.main returns 0, the ui script goes on to the list
EndPass ==
    IF driver = "cli"
    THEN /\ pc' = "done"
         /\ exit_code' = Some(0)
    ELSE /\ pc' = "render_list"
         /\ exit_code' = exit_code

\* head of "for idx, rk in enumerate(ids, start=1)"
ForLoop ==
    /\ pc = "loop"
    /\ UNCHANGED hostVars /\ UNCHANGED prev
    /\ UNCHANGED <<driver, args, selected, catalog, ui, start, page, selected_count,
                   ids, per_item_sleep>>
    /\ UNCHANGED sessionVars
    /\ IF idx > Len(ids) \/ (driver = "cli" /\ MaxItemsReached(args, updated))
       THEN /\ EndPass
            /\ log' = LET l1 == Append(log, Ev("done", "", updated, 0))
                      IN  IF driver = "ui" THEN EndHandler(l1, selected) ELSE l1
            /\ UNCHANGED <<idx, attempts, last_err, updated>>
       ELSE IF driver = "cli" /\ args.dry_run
       THEN /\ log' = LET l1 == Append(log, Ev("planned", Target(ids, idx), idx, 0))
                      IN  IF per_item_sleep # 0
                          THEN Append(l1, Ev("item_sleep", "", per_item_sleep, idx))
                          ELSE l1
            /\ idx' = AfterItem(idx, Len(ids), 0)
            /\ updated' = AfterPlanned(updated)
            /\ UNCHANGED <<pc, attempts, last_err, exit_code>>
       ELSE /\ attempts' = 0
            /\ last_err' = 0
            /\ pc' = "attempt"
            /\ UNCHANGED <<idx, log, exit_code, updated>>

\* variant: an identifier whose update succeeded leaves the selection
SelectionAfter_Deselect(d, rk, ok) == IF ok THEN DictSet(d, rk, FALSE) ELSE d
\* the retry loop reads rating_key and never writes to selected, whether the
\* call returned or raised
SelectionAfter(d, rk, ok) == d

\* plex.update_added_date returns
UpdateOk ==
    /\ pc = "attempt"
    /\ RetryAgain(attempts)
    /\ updated' = AfterCall(updated, TRUE)
    /\ last_err' = 0
    /\ log' = ItemTail(Append(log, CallEv("update_ok", Target(ids, idx), idx,
                                           attempts + 1, NewUnix, Lock)),
                       driver, Target(ids, idx), idx, Len(ids), 0, per_item_sleep)
    /\ idx' = AfterItem(idx, Len(ids), 0)
    /\ pc' = "loop"
    /\ UNCHANGED hostVars /\ UNCHANGED prev
    /\ selected' = SelectionAfter(selected, Target(ids, idx), TRUE)
    /\ UNCHANGED <<driver, args, catalog, ui, start, page,
                   selected_count, ids, attempts, per_item_sleep, exit_code>>
    /\ UNCHANGED sessionVars

\* plex.update_added_date raises
UpdateRaise ==
    /\ pc = "attempt"
    /\ RetryAgain(attempts)
    /\ LET e == KeepErr(last_err, Len(log) + 1)
           l1 == Append(Append(log, CallEv("update_raise", Target(ids, idx), idx, attempts + 1,
                                      NewUnix, Lock)),
                        Ev("backoff", "", Backoff(attempts + 1), attempts + 1))
       IN  /\ attempts' = attempts + 1
           /\ last_err' = e
           /\ IF RetryAgain(attempts + 1)
              THEN /\ log' = l1
                   /\ UNCHANGED <<idx, pc>>
              ELSE /\ log' = ItemTail(l1, driver, Target(ids, idx), idx, Len(ids), e,
                                      per_item_sleep)
                   /\ idx' = AfterItem(idx, Len(ids), e)
                   /\ pc' = "loop"
    /\ updated' = AfterCall(updated, FALSE)
    /\ UNCHANGED hostVars /\ UNCHANGED prev
    /\ selected' = SelectionAfter(selected, Target(ids, idx), FALSE)
    /\ UNCHANGED <<driver, args, catalog, ui, start, page,
                   selected_count, ids, per_item_sleep, exit_code>>
    /\ UNCHANGED sessionVars

\* ---- cli.main ----
\* args = parse_args(argv): argparse ends the process on a usage error
ParseArgs ==
    /\ driver = "cli"
    /\ pc = "parse"
    /\ IF parse_args(argv) = None
       THEN /\ pc' = "exit"
            /\ log' = <<SystemExit("usage", 2)>>
            /\ UNCHANGED args
       ELSE /\ pc' = "main"
            /\ args' = parse_args(argv)[1]
            /\ UNCHANGED log
    /\ UNCHANGED hostVars /\ UNCHANGED prev
    /\ UNCHANGED <<driver, selected, catalog, ui, start, page, selected_count, exit_code>>
    /\ UNCHANGED loopVars
    /\ UNCHANGED sessionVars

\* main from the credentials to the first fetch or the head of the loop
Main ==
    /\ driver = "cli"
    /\ pc = "main"
    /\ UNCHANGED <<argv, environ, prev>> /\ UNCHANGED pageVars
    /\ UNCHANGED <<driver, args, selected, catalog, ui, start, selected_count>>
    /\ UNCHANGED sessionVars
    /\ IF CredentialsMissing(args, environ)
       THEN /\ pc' = "done"
            /\ exit_code' = Some(2)
            /\ log' = <<Ev("missing_credentials", "", 0, 0)>>
            /\ UNCHANGED <<page, new_unix>>
            /\ UNCHANGED loopVars
       ELSE IF to_unix(args.date[1]) = None
       THEN /\ pc' = "exit"
            /\ log' = <<SystemExit("Invalid --date value", 1)>>
            /\ UNCHANGED <<page, exit_code, new_unix>>
            /\ UNCHANGED loopVars
       ELSE IF args.ids # <<>>
       THEN /\ new_unix' = to_unix(args.date[1])[1]
            /\ BeginLoop(args.ids, PerItemSleepCli(args))
            /\ log' = <<Ev("matched", "", Len(args.ids), 0)>>
            /\ UNCHANGED <<page, exit_code>>
       ELSE /\ new_unix' = to_unix(args.date[1])[1]
            /\ pc' = "fetch"
            /\ page' = FirstPage
            /\ ids' = <<>>
            /\ log' = <<>>
            /\ UNCHANGED <<idx, attempts, last_err, updated, per_item_sleep, exit_code>>

\* variant: the emptiness test comes after the title filter
EmptyBreak_AfterFilter(pg, kept) == kept = <<>>
\* "if not items: break" stands before the title filter: it sees the page as
\* fetched
EmptyBreak(pg, kept) == pg = <<>>

\* one turn of the while loop of iter_ids_from_fetch; when the generator is
\* exhausted main goes on with the collected list
IterFetch ==
    /\ driver = "cli"
    /\ pc = "fetch"
    /\ LET st == page * args.page_size
           pg == FetchPage(catalog, st, args.page_size)
           kept == IF args.title_contains # <<>>
                   THEN TitleFilter(pg, Lower(args.title_contains))
                   ELSE pg
           l1 == Append(log, FetchEv(st, pg, IF EmptyBreak(pg, kept) THEN <<>> ELSE kept,
                                     FiltersSent(args.year)))
           ids1 == IF EmptyBreak(pg, kept) THEN ids ELSE ids \o YieldIds(kept)
           last == EmptyBreak(pg, kept) \/ CliLastPage(st, args.page_size, catalog.total)
       IN  /\ start' = st
           /\ page' = IF EmptyBreak(pg, kept) THEN page ELSE page + 1
           /\ IF ~last
              THEN /\ ids' = ids1
                   /\ log' = l1
                   /\ UNCHANGED <<pc, idx, attempts, last_err, updated,
                                  per_item_sleep, exit_code>>
              ELSE IF ids1 = <<>>
              THEN /\ pc' = "done"
                   /\ exit_code' = Some(0)
                   /\ ids' = ids1
                   /\ log' = Append(l1, Ev("no_match", "", 0, 0))
                   /\ UNCHANGED <<idx, attempts, last_err, updated, per_item_sleep>>
              ELSE /\ BeginLoop(ids1, PerItemSleepCli(args))
                   /\ log' = Append(l1, Ev("matched", "", Len(ids1), 0))
                   /\ UNCHANGED exit_code
    /\ UNCHANGED hostVars /\ UNCHANGED prev
    /\ UNCHANGED <<driver, args, selected, catalog, ui, selected_count>>
    /\ UNCHANGED sessionVars

\* plex.fetch_items raises: the exception leaves main
IterFetchRaise ==
    /\ driver = "cli"
    /\ pc = "fetch"
    /\ start' = page * args.page_size
    /\ log' = Append(log, Ev("fetch_raise", "", start', 0))
    /\ pc' = OnFetchError("fetch")
    /\ UNCHANGED hostVars /\ UNCHANGED prev
    /\ UNCHANGED <<driver, args, selected, catalog, ui, page,
                   selected_count, exit_code>>
    /\ UNCHANGED loopVars
    /\ UNCHANGED sessionVars

\* ---- ui: _render_items ----
UiDefaults ==
    [event |-> "", page_size |-> 1, title |-> <<>>, title_filter |-> <<>>, year |-> "",
     max_per_min |-> 0, range_from |-> 0, range_to |-> 0, select |-> FALSE,
     batch_date |-> 0, lock |-> TRUE]
UiPageSizes == 1..MaxPageSize
\* what the user typed in the title box
UiTitles == {<<>>, <<" ", "A">>}
UiYears == {"2021"}
UiMaxPerMin == {0, 30}
\* "Max/min", "Batch date" (in days from the local epoch) and "Lock added
\* date" as set when "Apply to selected" is pressed
UiBatches ==
    {[max_per_min |-> m, batch_date |-> 1, lock |-> TRUE] : m \in UiMaxPerMin}
    \cup {[max_per_min |-> 0, batch_date |-> 789, lock |-> FALSE]}
\* the date inputs "From" and "To", in days from the local epoch
UiRanges == {<<0, 0>>, <<1, 1>>, <<2, 2>>}

RECURSIVE Strip(_)
\* str.strip(): blanks at both ends go
Strip(t) ==
    IF t = <<>> THEN t
    ELSE IF Head(t) = " " THEN Strip(Tail(t))
    ELSE IF t[Len(t)] = " " THEN Strip(SubSeq(t, 1, Len(t) - 1))
    ELSE t

\* app.py: title_filter = (cfg["title"] or "").strip().lower()
TitleFilterOf(t) == Lower(Strip(t))

\* the pages the active list can have on display
ShownPages == {<<ItemA>>, <<ItemB>>, <<ItemA, ItemB>>}

\* selected is the dict object stored under select_key: a write through the
\* local name is a write to st.session_state
WriteThrough == session' = [session EXCEPT ![SelectKey(active)] = selected']

\* the parameters _render_items is called with in this script run
Params(ev) ==
    \E ps \in UiPageSizes, t \in UiTitles, y \in UiYears :
        ui' = [UiDefaults EXCEPT !.event = ev, !.page_size = ps, !.title = t,
                                 !.title_filter = TitleFilterOf(t), !.year = y]

\* button "Select all results"
SelectAllResults ==
    /\ driver = "ui"
    /\ pc = "idle"
    /\ Params("select_all_results")
    /\ start' = FirstStart
    /\ selected_count' = 0
    /\ log' = <<>>
    /\ selected0' = selected
    /\ pc' = "sel_fetch"
    /\ UNCHANGED hostVars /\ UNCHANGED prev
    /\ UNCHANGED <<driver, args, selected, catalog, page, exit_code, session, active,
                   shown, boxes, page_select_all, touched>>
    /\ UNCHANGED loopVars

\* one turn of the while loop of "Select all results"
SelectAllFetch ==
    /\ driver = "ui"
    /\ pc = "sel_fetch"
    /\ LET pg == FetchPage(catalog, start, ui.page_size)
           kept == IF ui.title_filter # <<>> THEN TitleFilter(pg, ui.title_filter) ELSE pg
           l1 == Append(log, FetchEv(start, pg, kept, FiltersSent(ui.year)))
           st1 == start + ui.page_size
       IN  /\ selected' = SelectItems(selected, kept)
           /\ selected_count' = selected_count + Len(kept)
           /\ start' = st1
           /\ IF UiLastPage(st1, catalog.total)
              THEN /\ log' = EndHandler(
                                Append(Append(l1, Ev("progress", "", 100, 0)),
                                       Ev("selected", "", selected_count + Len(kept), 0)),
                                selected')
                   /\ pc' = "render_list"
              ELSE /\ log' = Append(l1, Ev("progress", "",
                                 Min(100, (st1 * 100) \div Max(1, catalog.total)), 0))
                   /\ UNCHANGED pc
    /\ WriteThrough
    /\ UNCHANGED hostVars /\ UNCHANGED prev
    /\ UNCHANGED <<driver, args, catalog, ui, page, exit_code, touched>>
    /\ UNCHANGED widgetVars
    /\ UNCHANGED loopVars

\* variant: the changes of the failed pass are taken back
Finally_Rollback(d, d0) == d0
\* "finally: progress.progress(100)" is all that runs when fetch_items
\* raises: the mapping keeps what the earlier pages wrote
Finally(d, d0) == d

\* plex.fetch_items raises inside "Select all results": the finally clause
\* runs and the exception ends the script run before the list is drawn
SelectAllFetchRaise ==
    /\ driver = "ui"
    /\ pc = "sel_fetch"
    /\ log' = Append(Append(log, Ev("fetch_raise", "", start, 0)),
                     Ev("progress", "", 100, 0))
    /\ pc' = OnFetchError("sel_fetch")
    /\ boxes' = IF pc' = "raised" THEN NoBoxes ELSE boxes
    /\ UNCHANGED hostVars /\ UNCHANGED prev
    /\ selected' = Finally(selected, selected0)
    /\ WriteThrough
    /\ UNCHANGED <<driver, args, catalog, ui, start, page,
                   selected_count, exit_code, active, shown, page_select_all,
                   touched, selected0>>
    /\ UNCHANGED loopVars

\* button "Clear all"
ClearAll ==
    /\ driver = "ui"
    /\ pc = "idle"
    /\ Params("clear_all")
    /\ selected' = <<>>
    /\ WriteThrough
    /\ selected0' = selected
    /\ log' = EndHandler(<<Ev("cleared", "all", 0, 0)>>, selected')
    /\ pc' = "render_list"
    /\ UNCHANGED hostVars /\ UNCHANGED prev
    /\ UNCHANGED <<driver, args, catalog, start, page, selected_count, exit_code,
                   active, shown, boxes, page_select_all, touched>>
    /\ UNCHANGED loopVars

\* button "Clear page"
ClearPage ==
    /\ driver = "ui"
    /\ pc = "idle"
    /\ Params("clear_page")
    /\ selected' = ClearItems(selected, shown)
    /\ WriteThrough
    /\ selected0' = selected
    /\ log' = EndHandler(<<Ev("cleared", "page", 0, 0)>>, selected')
    /\ pc' = "render_list"
    /\ UNCHANGED hostVars /\ UNCHANGED prev
    /\ UNCHANGED <<driver, args, catalog, start, page, selected_count, exit_code,
                   active, shown, boxes, page_select_all, touched>>
    /\ UNCHANGED loopVars

\* button "Apply to selected"
ApplyToSelected ==
    /\ driver = "ui"
    /\ pc = "idle"
    /\ \E b \in UiBatches :
          /\ ui' = [UiDefaults EXCEPT !.event = "apply", !.max_per_min = b.max_per_min,
                                      !.batch_date = b.batch_date, !.lock = b.lock]
          /\ IF TrueKeys(selected) = <<>>
             THEN /\ log' = EndHandler(<<Ev("warning", "", 0, 0)>>, selected)
                  /\ pc' = "render_list"
                  /\ UNCHANGED loopVars
             ELSE /\ BeginLoop(TrueKeys(selected), PerItemSleepUi(b.max_per_min))
                  /\ log' = <<>>
    /\ selected0' = selected
    /\ UNCHANGED hostVars /\ UNCHANGED prev
    /\ UNCHANGED <<driver, args, selected, catalog, start, page, selected_count,
                   exit_code, session, active, shown, boxes, page_select_all, touched>>

\* buttons "Select range" and "Deselect range": _select_range(select) begins;
\* the caption above the expander has been drawn
SelectRange ==
    /\ driver = "ui"
    /\ pc = "idle"
    /\ \E ps \in UiPageSizes, t \in UiTitles, y \in UiYears, r \in UiRanges,
          sel \in BOOLEAN :
          ui' = [UiDefaults EXCEPT
                    !.event = IF sel THEN "select_range" ELSE "deselect_range",
                    !.page_size = ps, !.title = t, !.title_filter = TitleFilterOf(t),
                    !.year = y,
                    !.range_from = r[1], !.range_to = r[2], !.select = sel]
    /\ start' = FirstStart
    /\ touched' = 0
    /\ log' = Caption(<<>>, selected)
    /\ selected0' = selected
    /\ pc' = "range_fetch"
    /\ UNCHANGED hostVars /\ UNCHANGED prev
    /\ UNCHANGED <<driver, args, selected, catalog, page, selected_count, exit_code,
                   session, active, shown, boxes, page_select_all>>
    /\ UNCHANGED loopVars

\* one turn of the while loop of _select_range
RangeFetch ==
    /\ driver = "ui"
    /\ pc = "range_fetch"
    /\ LET pg == FetchPage(catalog, start, ui.page_size)
           kept == IF ui.title_filter # <<>> THEN TitleFilter(pg, ui.title_filter) ELSE pg
           hit == RangeItems(kept, ui.range_from, ui.range_to)
           l1 == Append(log, FetchEv(start, pg, kept, FiltersSent(ui.year)))
           st1 == start + ui.page_size
       IN  /\ selected' = MarkItems(selected, hit, ui.select)
           /\ touched' = touched + Len(hit)
           /\ start' = st1
           /\ IF UiLastPage(st1, catalog.total)
              THEN /\ log' = Append(Append(l1, Ev("progress", "", 100, 0)),
                                    Ev("in_range", "", touched + Len(hit), 0))
                   /\ pc' = "render_list"
              ELSE /\ log' = Append(l1, Ev("progress", "",
                                 Min(100, (st1 * 100) \div Max(1, catalog.total)), 0))
                   /\ UNCHANGED pc
    /\ WriteThrough
    /\ UNCHANGED hostVars /\ UNCHANGED prev
    /\ UNCHANGED <<driver, args, catalog, ui, page, exit_code, selected_count>>
    /\ UNCHANGED widgetVars
    /\ UNCHANGED loopVars

\* plex.fetch_items raises inside _select_range: the finally clause runs and
\* the exception ends the script run before the list is drawn
RangeFetchRaise ==
    /\ driver = "ui"
    /\ pc = "range_fetch"
    /\ log' = Append(Append(log, Ev("fetch_raise", "", start, 0)),
                     Ev("progress", "", 100, 0))
    /\ pc' = OnFetchError("range_fetch")
    /\ boxes' = IF pc' = "raised" THEN NoBoxes ELSE boxes
    /\ UNCHANGED hostVars /\ UNCHANGED prev
    /\ selected' = Finally(selected, selected0)
    /\ WriteThrough
    /\ UNCHANGED <<driver, args, catalog, ui, start, page,
                   selected_count, exit_code, active, shown, page_select_all,
                   touched, selected0>>
    /\ UNCHANGED loopVars

\* a script run in which no button of the list was pressed
NoButton(ev) ==
    /\ driver = "ui"
    /\ pc = "idle"
    /\ Params(ev)
    /\ log' = Caption(<<>>, selected)
    /\ selected0' = selected
    /\ pc' = "render_list"
    /\ UNCHANGED hostVars /\ UNCHANGED prev
    /\ UNCHANGED <<driver, args, selected, catalog, start, page, selected_count,
                   exit_code, session, active, touched>>
    /\ UNCHANGED loopVars

\* the user ticks or unticks the checkbox of one item on display
Tick ==
    /\ NoButton("tick")
    /\ \E k \in DOMAIN boxes : boxes' = [boxes EXCEPT ![k].u = ~@]
    /\ UNCHANGED <<shown, page_select_all>>

\* the user ticks or unticks "Select all on page"
SelectAllOnPage ==
    /\ NoButton("select_all_on_page")
    /\ page_select_all' = ~page_select_all
    /\ UNCHANGED <<shown, boxes>>

\* the user moves to another page of the list
GotoPage ==
    /\ NoButton("goto_page")
    /\ shown' \in ShownPages \ {shown}
    /\ UNCHANGED <<boxes, page_select_all>>

\* the script runs again for a reason outside the list (a sidebar widget, the
\* other tab) and draws the same page
Refresh ==
    /\ NoButton("refresh")
    /\ UNCHANGED <<shown, boxes, page_select_all>>

\* "Render list": every item on display gets its checkbox, and what the
\* checkbox returns is written to the selection mapping; then the other tab
\* draws its page
RenderList ==
    /\ driver = "ui"
    /\ pc = "render_list"
    /\ \E f \in [Keys(shown) -> BOOLEAN] :
          /\ \A k \in Keys(shown) :
                f[k] \in CheckboxReturns(boxes, k, Checked(page_select_all, selected, k))
          /\ selected' = WriteBoxes(selected, shown, f)
          /\ boxes' = [k \in Keys(shown) |->
                          [u |-> f[k], d |-> Checked(page_select_all, selected, k)]]
    /\ session' = LET s1 == [session EXCEPT ![SelectKey(active)] = selected']
                  IN  [s1 EXCEPT ![SelectKey(Other(active))] = RenderOther(@)]
    /\ pc' = "rendered"
    /\ UNCHANGED hostVars /\ UNCHANGED prev
    /\ UNCHANGED <<driver, args, catalog, ui, start, page, selected_count, exit_code,
                   log, active, shown, page_select_all, touched, selected0>>
    /\ UNCHANGED loopVars

\* the script run has ended; the next interaction runs the script again with
\* fresh locals, and only st.session_state is carried over
Rerun ==
    /\ driver = "ui"
    /\ pc \in {"rendered", "raised"}
    /\ pc' = "idle"
    /\ ui' = UiDefaults
    /\ selected' = session[SelectKey(active)]
    /\ start' = 0
    /\ selected_count' = 0
    /\ touched' = 0
    /\ ids' = <<>>
    /\ idx' = 1
    /\ attempts' = 0
    /\ last_err' = 0
    /\ updated' = 0
    /\ per_item_sleep' = 0
    /\ log' = <<>>
    /\ selected0' = selected'
    /\ prev' = IF \E p \in 1..Len(log) : log[p].op = "done"
               THEN IF \E p \in 1..Len(log) : log[p].op = "update_raise"
                    THEN None ELSE Some(ids)
               ELSE prev
    /\ UNCHANGED hostVars
    /\ UNCHANGED <<driver, args, catalog, page, exit_code, session, active, shown,
                   boxes, page_select_all>>

\* ---- initial states ----
IdLists == SeqsUpTo(Ids, MaxTargets) \ {<<>>}

\* the date strings handed to --date
DateStrings ==
    {"1970-01-02", "1970-1-2", "1972-02-29", "1971-02-29", "1970-13-40", "19700102",
     "1970-01-023", "1970-01-", ""}

\* what --base-url / PLEX_BASE_URL and --token / PLEX_TOKEN can hold
Urls == {None, Some(<<>>), Some(<<"/">>), Some(<<"h", "/">>)}
Tokens == {None, Some(<<>>), Some(<<"t">>)}
Environs == [PLEX_BASE_URL : Urls, PLEX_TOKEN : Tokens]

\* an environment that holds both credentials
EnvOk == [PLEX_BASE_URL |-> Some(<<"h", "/">>), PLEX_TOKEN |-> Some(<<"t">>)]

\* the namespaces a run is entered with: explicit ids under every rate
\* setting, a fetch under every filter, and one target under every way of
\* giving the credentials, the date and the lock flag
RateArgs ==
    [ids : IdLists,
     max_items : {None} \cup {Some(n) : n \in 0..MaxTargets},
     dry_run : BOOLEAN,
     sleep : {0, 3000},
     max_per_minute : {None, Some(0), Some(30)},
     page_size : {1},
     year : {""},
     title_contains : {<<>>},
     section_id : {Some("1")}, date : {Some("1970-01-02")}, no_lock : {FALSE},
     base_url : {None}, token : {None}]

FetchArgs ==
    [ids : {<<>>},
     max_items : {None},
     dry_run : {FALSE},
     sleep : {0},
     max_per_minute : {None},
     page_size : 1..MaxPageSize,
     year : {"", "2021"},
     title_contains : {<<>>, <<"A">>},
     section_id : {Some("1")}, date : {Some("1970-01-02")}, no_lock : {FALSE},
     base_url : {None}, token : {None}]

CredArgs ==
    [ids : {<<"a">>},
     max_items : {None},
     dry_run : {FALSE},
     sleep : {0},
     max_per_minute : {None, Some(30)},
     page_size : {1},
     year : {""},
     title_contains : {<<>>},
     section_id : {Some("1")}, date : {Some(d) : d \in DateStrings}, no_lock : BOOLEAN,
     base_url : Urls \ {Some(<<"/">>)}, token : Tokens \ {Some(<<>>)}]

CliArgs == RateArgs \cup FetchArgs \cup CredArgs

NoArgs ==
    [ids |-> <<>>, max_items |-> None, dry_run |-> FALSE, sleep |-> 0,
     max_per_minute |-> None, page_size |-> 1, year |-> "", title_contains |-> <<>>,
     section_id |-> None, date |-> None, no_lock |-> FALSE, base_url |-> None,
     token |-> None]

\* selection mappings over distinct keys
Dicts ==
    { d \in SeqsUpTo([k : Ids, v : BOOLEAN], MaxTargets) :
        \A i, j \in 1..Len(d) : i # j => d[i].k # d[j].k }

\* the selection mapping a session is entered with when the library varies
FewDicts == { <<[k |-> "b", v |-> TRUE], [k |-> "a", v |-> FALSE]>> }

\* a selection of three: the two items and one that came without ratingKey
ThreeSelected ==
    <<[k |-> "a", v |-> TRUE], [k |-> "b", v |-> TRUE], [k |-> "None", v |-> TRUE]>>

\* the library of a session that runs on
SessionLibrary == [items |-> <<ItemA, ItemB>>, total |-> 2]

\* the selection the other list holds
OtherSelected == <<[k |-> "a", v |-> TRUE]>>

NoSession == [k \in SelectKeys |-> <<>>]

\* the session after a script run drew page pg for mapping d: every item on
\* display has its checkbox and its entry in the mapping
Drawn(d, pg) == WriteBoxes(d, pg, [k \in Keys(pg) |-> DictGet(d, k)])

\* ---- ui_nav: the pager and the query string ----
MaxPages == 3

\* _handle_query_nav("movie", "movie_page", total_pages)
NavKey == "movie_nav"
GotoKey == "movie_goto"
DensityKey == "ui_density"
QueryKeys == {NavKey, GotoKey, DensityKey}

StrPrev == <<"p", "r", "e", "v">>
StrNext == <<"n", "e", "x", "t">>

\* dict(st.query_params) maps a key to a str; where that attribute is
\* missing, st.experimental_get_query_params() maps it to a list of str
QpApis == {"query_params", "experimental"}

NoQuery == [k \in QueryKeys |-> None]

\* k in q
InQuery(q, k) == q[k] # None

\* (q.get(k) or [""])[0] : the first value of a list, the first character of
\* a str, "" for an empty one
FirstOf(q, k, api) ==
    LET v == q[k][1]
    IN IF api = "experimental" THEN v
       ELSE IF v = <<>> THEN <<>> ELSE <<v[1]>>

\* the nav_key branch: one page back or forward inside 1..total_pages
NavBranch(q, api, p, total) ==
    IF ~InQuery(q, NavKey) THEN [page |-> p, changed |-> FALSE]
    ELSE LET val == FirstOf(q, NavKey, api)
         IN IF val = StrPrev /\ p > 1 THEN [page |-> p - 1, changed |-> TRUE]
            ELSE IF val = StrNext /\ p < total
                 THEN [page |-> p + 1, changed |-> TRUE]
                 ELSE [page |-> p, changed |-> FALSE]

\* the goto_key branch: int() of a decimal string, clamped; anything else
\* raises inside the try and is passed over
GotoBranch(q, api, st, total) ==
    IF ~InQuery(q, GotoKey) THEN st
    ELSE LET val == FirstOf(q, GotoKey, api)
         IN IF AllDigits(val)
            THEN [page |-> Max(1, Min(total, Num(val))), changed |-> TRUE]
            ELSE st

\* the keys the handler takes out of the query before _qp_set
Consumed(q, ch) ==
    IF ch THEN [q EXCEPT ![NavKey] = None, ![GotoKey] = None] ELSE q

\* _handle_query_nav, whole; _safe_rerun starts the script again
HandleQueryNav ==
    /\ pc = "nav_run"
    /\ LET st == GotoBranch(query_params, qp_api,
                            NavBranch(query_params, qp_api, page_state, total_pages),
                            total_pages)
       IN /\ page_state' = st.page
          /\ changed' = st.changed
          /\ query_params' = Consumed(query_params, st.changed)
          /\ pc' = IF st.changed THEN "nav_run" ELSE "nav_shown"
    /\ UNCHANGED <<qp_api, total_pages>>
    /\ UNCHANGED <<local_storage, session_storage, ui_density, served, redirects>>
    /\ UNCHANGED <<driver, args, selected, catalog, ui, start, page, loopVars,
                   selected_count, exit_code, log, session, active, shown, boxes,
                   page_select_all, touched, selected0, argv, environ, prev, new_unix>>

NavValues == {StrPrev, StrNext, <<"u", "p">>, <<>>}
GotoValues == {<<"2">>, <<"1", "2">>, <<"0">>, <<"x">>, <<>>}

\* the fixed pager bar and the arrow keys: setParam(k, v) replaces the page
\* location; the page that loads belongs to this session or to a new one
SetParam ==
    /\ pc = "nav_shown"
    /\ \E k \in {NavKey, GotoKey} :
         \E v \in (IF k = NavKey THEN NavValues ELSE GotoValues) :
            query_params' = [query_params EXCEPT ![k] = Some(v)]
    /\ page_state' \in {page_state, 1}
    /\ pc' = "nav_run"
    /\ UNCHANGED <<qp_api, total_pages, changed>>
    /\ UNCHANGED <<local_storage, session_storage, ui_density, served, redirects>>
    /\ UNCHANGED <<driver, args, selected, catalog, ui, start, page, loopVars,
                   selected_count, exit_code, log, session, active, shown, boxes,
                   page_select_all, touched, selected0, argv, environ, prev, new_unix>>

\* _nav: "< Prev", "Next >" and "Go" set the page and rerun
PagerButton ==
    /\ pc = "nav_shown"
    /\ \/ page_state > 1 /\ page_state' = page_state - 1
       \/ page_state < total_pages /\ page_state' = page_state + 1
       \/ page_state' \in 1..total_pages
    /\ pc' = "nav_run"
    /\ UNCHANGED <<query_params, qp_api, total_pages, changed>>
    /\ UNCHANGED <<local_storage, session_storage, ui_density, served, redirects>>
    /\ UNCHANGED <<driver, args, selected, catalog, ui, start, page, loopVars,
                   selected_count, exit_code, log, session, active, shown, boxes,
                   page_select_all, touched, selected0, argv, environ, prev, new_unix>>

\* total_pages = max(1, (total + page_size - 1) // page_size)
TotalPages(total, ps) == Max(1, (total + ps - 1) \div ps)

\* the page sizes of the selectbox, scaled from [50, 100, 200]
NavPageSizes == {1, 2}

\* _controls: the user picks another page size or types another year; the
\* script runs again with the total the server reports for them.  Only
\* "Reset Filters" writes the page number.
Controls ==
    /\ pc = "nav_shown"
    /\ \E t \in 0..MaxPages, ps \in NavPageSizes : total_pages' = TotalPages(t, ps)
    /\ \E reset \in BOOLEAN : page_state' = IF reset THEN 1 ELSE page_state
    /\ pc' = "nav_run"
    /\ UNCHANGED <<query_params, qp_api, changed>>
    /\ UNCHANGED <<local_storage, session_storage, ui_density, served, redirects>>
    /\ UNCHANGED <<driver, args, selected, catalog, ui, start, page, loopVars,
                   selected_count, exit_code, log, session, active, shown, boxes,
                   page_select_all, touched, selected0, argv, environ, prev, new_unix>>

\* ---- density: stored in the browser, applied by the server ----
ValidDensities == {"Ultra Compact", "Compact", "Comfortable", "Spacious"}
DefaultDensity == "Comfortable"

MaxRedirects == 3

\* what localStorage may hold under ui_density: a density this or an older
\* version wrote, or anything else of the same origin
StoredValues == ValidDensities \cup {"bogus", ""}

\* truth value of a JavaScript string or null
JsTruthy(o) == o # None /\ o[1] # ""

\* _maybe_apply_density_from_query: a valid ?ui_density= goes to the session
\* and leaves the URL, the other parameters stay; any other value is left
DensityFromQuery(q) ==
    IF InQuery(q, DensityKey) /\ q[DensityKey][1] # "" /\ q[DensityKey][1] \in ValidDensities
    THEN Some(q[DensityKey][1])
    ELSE None

\* one script run up to the page it sends: main lines 665 to 696
DensityRun ==
    /\ pc = "density_run"
    /\ LET val == DensityFromQuery(query_params)
       IN /\ ui_density' = IF val # None THEN val[1] ELSE ui_density
          /\ query_params' = IF val # None
                             THEN [query_params EXCEPT ![DensityKey] = None]
                             ELSE query_params
    /\ served' = ui_density'
    /\ pc' = "density_loaded"
    /\ UNCHANGED <<qp_api, page_state, total_pages, changed>>
    /\ UNCHANGED <<local_storage, session_storage, redirects>>
    /\ UNCHANGED <<driver, args, selected, catalog, ui, start, page, loopVars,
                   selected_count, exit_code, log, session, active, shown, boxes,
                   page_select_all, touched, selected0, argv, environ, prev, new_unix>>

\* the default ui_density.inject_density_bootstrap stores when nothing is
\* saved: Spacious on a touch device, else Comfortable
PointerDefaults == {"Spacious", "Comfortable"}

\* if (ls && !booted && ls !== serverDensity)
ShouldRedirect_NoFlag(ls, booted, serverDensity) ==
    JsTruthy(ls) /\ ls[1] # serverDensity
ShouldRedirect(ls, booted, serverDensity) ==
    JsTruthy(ls) /\ ~JsTruthy(booted) /\ ls[1] # serverDensity

\* the bootstrap script in the browser, in its two versions (with_default:
\* ui_density.py).  The redirect sets the flag, then replaces the location;
\* the page that loads belongs to a new session or, where the server keeps
\* it, to this one.
Bootstrap ==
    /\ pc = "density_loaded"
    /\ \E with_default \in BOOLEAN :
         \E d \in PointerDefaults :
            LET ls == IF with_default /\ ~JsTruthy(local_storage)
                      THEN Some(d) ELSE local_storage
            IN /\ local_storage' = ls
               /\ IF ShouldRedirect(ls, session_storage, served)
                  THEN /\ redirects < MaxRedirects
                       /\ query_params' = [query_params EXCEPT ![DensityKey] = ls]
                       /\ session_storage' = Some("1")
                       /\ redirects' = redirects + 1
                       /\ ui_density' \in {DefaultDensity, ui_density}
                       /\ pc' = "density_run"
                  ELSE /\ pc' = "density_shown"
                       /\ UNCHANGED <<query_params, session_storage, redirects, ui_density>>
    /\ UNCHANGED <<qp_api, page_state, total_pages, changed, served>>
    /\ UNCHANGED <<driver, args, selected, catalog, ui, start, page, loopVars,
                   selected_count, exit_code, log, session, active, shown, boxes,
                   page_select_all, touched, selected0, argv, environ, prev, new_unix>>

\* the script _apply_density sends: localStorage.setItem('ui_density', density)
StoreDensity ==
    /\ pc \in {"density_loaded", "density_shown"}
    /\ local_storage' = Some(served)
    /\ UNCHANGED <<pc, query_params, qp_api, page_state, total_pages, changed>>
    /\ UNCHANGED <<session_storage, ui_density, served, redirects>>
    /\ UNCHANGED <<driver, args, selected, catalog, ui, start, page, loopVars,
                   selected_count, exit_code, log, session, active, shown, boxes,
                   page_select_all, touched, selected0, argv, environ, prev, new_unix>>

\* st.selectbox("Density", ..., key="ui_density"): the user picks another
SelectDensity ==
    /\ pc = "density_shown"
    /\ ui_density' \in ValidDensities \ {ui_density}
    /\ pc' = "density_run"
    /\ UNCHANGED <<query_params, qp_api, page_state, total_pages, changed>>
    /\ UNCHANGED <<local_storage, session_storage, served, redirects>>
    /\ UNCHANGED <<driver, args, selected, catalog, ui, start, page, loopVars,
                   selected_count, exit_code, log, session, active, shown, boxes,
                   page_select_all, touched, selected0, argv, environ, prev, new_unix>>

\* the user reloads the page: a new session in the same tab
Reload ==
    /\ pc = "density_shown"
    /\ ui_density' = DefaultDensity
    /\ pc' = "density_run"
    /\ UNCHANGED <<query_params, qp_api, page_state, total_pages, changed>>
    /\ UNCHANGED <<local_storage, session_storage, served, redirects>>
    /\ UNCHANGED <<driver, args, selected, catalog, ui, start, page, loopVars,
                   selected_count, exit_code, log, session, active, shown, boxes,
                   page_select_all, touched, selected0, argv, environ, prev, new_unix>>

\* another tab of the same origin writes or removes the stored density
OtherTab ==
    /\ pc \in {"density_run", "density_loaded", "density_shown"}
    /\ local_storage' \in ({None} \cup {Some(v) : v \in StoredValues}) \ {local_storage}
    /\ UNCHANGED <<pc, query_params, qp_api, page_state, total_pages, changed>>
    /\ UNCHANGED <<session_storage, ui_density, served, redirects>>
    /\ UNCHANGED <<driver, args, selected, catalog, ui, start, page, loopVars,
                   selected_count, exit_code, log, session, active, shown, boxes,
                   page_select_all, touched, selected0, argv, environ, prev, new_unix>>

\* a page outside the pager and the density bootstrap
NoPage ==
    /\ query_params = NoQuery
    /\ qp_api = "query_params"
    /\ page_state = 1
    /\ total_pages = 1
    /\ changed = FALSE
    /\ local_storage = None
    /\ session_storage = None
    /\ ui_density = DefaultDensity
    /\ served = DefaultDensity
    /\ redirects = 0

\* no script is running
Locals ==
    /\ new_unix = 0
    /\ ui = UiDefaults
    /\ start = 0
    /\ page = 0
    /\ ids = <<>>
    /\ idx = 1
    /\ attempts = 0
    /\ last_err = 0
    /\ updated = 0
    /\ per_item_sleep = 0
    /\ selected_count = 0
    /\ touched = 0
    /\ exit_code = None
    /\ log = <<>>

\* one run of the command line
InitCli ==
    /\ driver = "cli"
    /\ args \in CliArgs
    /\ argv = <<>>
    /\ environ \in (IF args \in CredArgs THEN Environs ELSE {EnvOk})
    /\ prev = None
    /\ NoPage
    /\ catalog \in (IF args.ids = <<>> THEN Catalogs ELSE {EmptyCatalog})
    /\ selected = <<>>
    /\ pc = "main"
    /\ session = NoSession
    /\ active = "movie"
    /\ shown = <<>>
    /\ boxes = NoBoxes
    /\ page_select_all = FALSE
    /\ selected0 = <<>>
    /\ Locals

\* a Streamlit session between two script runs: the list is on display, and
\* the next interaction starts one script run
InitUi ==
    /\ driver = "ui"
    /\ args = NoArgs
    /\ argv = <<>>
    /\ environ = EnvOk
    /\ prev = None
    /\ NoPage
    /\ pc = "idle"
    /\ \E d \in Dicts \cup FewDicts \cup {ThreeSelected} :
          /\ IF d \in FewDicts
             THEN /\ catalog \in Catalogs
                  /\ shown = <<ItemA>>
                  /\ page_select_all = FALSE
                  /\ active = "movie"
             ELSE IF d = ThreeSelected
             THEN /\ catalog = SessionLibrary
                  /\ shown = <<ItemA>>
                  /\ page_select_all = FALSE
                  /\ active = "movie"
             ELSE /\ catalog = SessionLibrary
                  /\ shown \in ShownPages
                  /\ page_select_all \in BOOLEAN
                  /\ active \in Lists
          /\ selected = Drawn(d, shown)
    /\ boxes = [k \in Keys(shown) |->
                   [u |-> DictGet(selected, k),
                    d |-> Checked(page_select_all, selected, k)]]
    /\ session = [k \in SelectKeys |->
                     IF k = SelectKey(active) THEN selected ELSE OtherSelected]
    /\ selected0 = selected
    /\ Locals

Init == InitCli \/ InitUi

Next ==
    \/ Main
    \/ IterFetch
    \/ IterFetchRaise
    \/ ForLoop
    \/ UpdateOk
    \/ UpdateRaise
    \/ SelectAllResults
    \/ SelectAllFetch
    \/ SelectAllFetchRaise
    \/ ClearAll
    \/ ClearPage
    \/ ApplyToSelected
    \/ SelectRange
    \/ RangeFetch
    \/ RangeFetchRaise
    \/ Tick
    \/ SelectAllOnPage
    \/ GotoPage
    \/ Refresh
    \/ RenderList

\* one run of the command line, or one script run of a Streamlit session
Spec == Init /\ [][Next]_vars

\* a step of the batch loop
BatchStep == ForLoop \/ UpdateOk \/ UpdateRaise

\* every remote call returns or raises (the client sets a timeout), and every
\* sleep ends: the running loop always takes its next step
FairSpec == Spec /\ WF_vars(BatchStep)

\* the first script run of a Streamlit session draws the first page of the
\* active list
SessionInit ==
    /\ driver = "ui"
    /\ args = NoArgs
    /\ argv = <<>>
    /\ environ = EnvOk
    /\ prev = None
    /\ NoPage
    /\ pc = "render_list"
    /\ catalog = SessionLibrary
    /\ shown = <<ItemA, ItemB>>
    /\ page_select_all = FALSE
    /\ active \in Lists
    /\ selected = <<>>
    /\ boxes = NoBoxes
    /\ session = [k \in SelectKeys |->
                     IF k = SelectKey(active) THEN selected ELSE OtherSelected]
    /\ selected0 = selected
    /\ Locals

SessionNext ==
    \/ ForLoop
    \/ UpdateOk
    \/ UpdateRaise
    \/ SelectAllResults
    \/ SelectAllFetch
    \/ SelectAllFetchRaise
    \/ ClearAll
    \/ ClearPage
    \/ ApplyToSelected
    \/ SelectRange
    \/ RangeFetch
    \/ RangeFetchRaise
    \/ Tick
    \/ SelectAllOnPage
    \/ GotoPage
    \/ Refresh
    \/ RenderList
    \/ Rerun

\* a Streamlit session, one script run after the other
SessionSpec == SessionInit /\ [][SessionNext]_vars

\* ---- the command line from its tokens ----
\* the pieces a command line is put together from
ArgvPieces ==
    {<<"--section-id", "1">>, <<"--date", "1970-01-02">>, <<"--date", "1970-13-40">>,
     <<"--ids", "a", "b">>, <<"--ids">>, <<"--dry-run">>, <<"--no-lock">>,
     <<"--list-sections">>, <<"--date">>, <<"1">>}

MaxArgvPieces == 3

RECURSIVE Flatten(_)
Flatten(ps) == IF ps = <<>> THEN <<>> ELSE Head(ps) \o Flatten(Tail(ps))

Argvs == { Flatten(ps) : ps \in SeqsUpTo(ArgvPieces, MaxArgvPieces) }

\* one process: main(argv) from its first line
CliInit ==
    /\ driver = "cli"
    /\ argv \in Argvs
    /\ environ \in {EnvOk, [EnvOk EXCEPT !.PLEX_TOKEN = None]}
    /\ args = NoArgs
    /\ catalog = SessionLibrary
    /\ pc = "parse"
    /\ selected = <<>>
    /\ session = NoSession
    /\ active = "movie"
    /\ shown = <<>>
    /\ boxes = NoBoxes
    /\ page_select_all = FALSE
    /\ selected0 = <<>>
    /\ prev = None
    /\ NoPage
    /\ Locals

CliNext ==
    \/ ParseArgs
    \/ Main
    \/ IterFetch
    \/ IterFetchRaise
    \/ ForLoop
    \/ UpdateOk
    \/ UpdateRaise

CliSpec == CliInit /\ [][CliNext]_vars

\* one list of a new Streamlit session (_init_state: movie_page 1), reached
\* by a URL that may carry parameters
NavInit ==
    /\ driver = "ui"
    /\ pc = "nav_run"
    /\ query_params \in {[NoQuery EXCEPT ![k] = Some(v)] :
                            k \in {NavKey}, v \in NavValues}
                       \cup {[NoQuery EXCEPT ![k] = Some(v)] :
                            k \in {GotoKey}, v \in GotoValues}
                       \cup {NoQuery, [NoQuery EXCEPT ![DensityKey] = Some("bogus")]}
    /\ qp_api \in QpApis
    /\ total_pages \in 1..MaxPages
    /\ page_state = 1
    /\ changed = FALSE
    /\ local_storage = None
    /\ session_storage = None
    /\ ui_density = DefaultDensity
    /\ served = DefaultDensity
    /\ redirects = 0
    /\ args = NoArgs
    /\ argv = <<>>
    /\ environ = EnvOk
    /\ prev = None
    /\ catalog = SessionLibrary
    /\ selected = <<>>
    /\ session = NoSession
    /\ active = "movie"
    /\ shown = <<>>
    /\ boxes = NoBoxes
    /\ page_select_all = FALSE
    /\ selected0 = <<>>
    /\ Locals

NavNext ==
    \/ HandleQueryNav
    \/ SetParam
    \/ PagerButton
    \/ Controls

NavSpec == NavInit /\ [][NavNext]_vars

\* a browser tab opens the page: nothing in sessionStorage, a new session,
\* anything in localStorage and in the URL
DensityInit ==
    /\ driver = "ui"
    /\ pc = "density_run"
    /\ query_params \in {NoQuery, [NoQuery EXCEPT ![GotoKey] = Some(<<"2">>)]}
                       \cup {[NoQuery EXCEPT ![DensityKey] = Some(v)] : v \in StoredValues}
    /\ local_storage \in {None} \cup {Some(v) : v \in StoredValues}
    /\ session_storage = None
    /\ ui_density = DefaultDensity
    /\ served = DefaultDensity
    /\ redirects = 0
    /\ qp_api = "query_params"
    /\ page_state = 1
    /\ total_pages = 1
    /\ changed = FALSE
    /\ args = NoArgs
    /\ argv = <<>>
    /\ environ = EnvOk
    /\ prev = None
    /\ catalog = SessionLibrary
    /\ selected = <<>>
    /\ session = NoSession
    /\ active = "movie"
    /\ shown = <<>>
    /\ boxes = NoBoxes
    /\ page_select_all = FALSE
    /\ selected0 = <<>>
    /\ Locals

DensityNext ==
    \/ DensityRun
    \/ Bootstrap
    \/ StoreDensity
    \/ SelectDensity
    \/ Reload
    \/ OtherTab

DensitySpec == DensityInit /\ [][DensityNext]_vars

TypeOK ==
    /\ driver \in {"cli", "ui"}
    /\ pc \in {"parse", "main", "fetch", "loop", "attempt", "done", "raised", "exit", "idle",
              "sel_fetch", "range_fetch", "render_list", "rendered",
              "nav_run", "nav_shown", "density_run", "density_loaded", "density_shown"}
    /\ idx \in 1..(Len(ids) + 1)
    /\ attempts \in 0..MaxAttempts
    /\ updated \in 0..Len(ids)
    /\ active \in Lists
    /\ DOMAIN session = SelectKeys
    /\ DOMAIN query_params = QueryKeys
    /\ page_state \in Nat
    /\ redirects \in Nat

\* ---- reading the history ----
IsCall(e) == e.op \in {"update_ok", "update_raise"}
CallPos == { p \in 1..Len(log) : IsCall(log[p]) }
CallsFor(i) == { p \in CallPos : log[p].n = i }
OkFor(i) == { p \in CallPos : log[p].op = "update_ok" /\ log[p].n = i }
RaisesFor(i) == { p \in CallPos : log[p].op = "update_raise" /\ log[p].n = i }
FailedFor(i) == { p \in 1..Len(log) : log[p].op = "failed" /\ log[p].m = i }
FailedPos == { p \in 1..Len(log) : log[p].op = "failed" }
Attempted == { i \in 1..Len(ids) : CallsFor(i) # {} }
Exhausted == { i \in 1..Len(ids) : FailedFor(i) # {} }

\* the batch loop is running / has finished and reported
InBatch == pc \in {"loop", "attempt"}
HasOp(o) == \E p \in 1..Len(log) : log[p].op = o
BatchFinished == HasOp("done")
\* targets the loop has left behind
Processed == IF InBatch \/ BatchFinished THEN 1..(idx - 1) ELSE {}
RealRun == ~args.dry_run

\* C1: a target whose update call raises on every attempt gets exactly 4
\* update calls and one failure report, and no target ever gets a 5th call
C1_RetryBound ==
    /\ \A i \in 1..Len(ids) : (InBatch \/ BatchFinished) => Cardinality(CallsFor(i)) <= 4
    /\ \A i \in Processed :
          (RaisesFor(i) # {} /\ OkFor(i) = {}) =>
              /\ Cardinality(CallsFor(i)) = 4
              /\ Cardinality(FailedFor(i)) = 1
              /\ \A p \in FailedFor(i) : log[p].id = ids[i]

C1_Witness ==
    /\ BatchFinished
    /\ \E i \in Processed :
          /\ Cardinality(RaisesFor(i)) = 4
          /\ OkFor(i) = {}
          /\ FailedFor(i) # {}
          /\ i < Len(ids)

\* C2: when the batch loop of a real run finishes, updated + failed is at most
\* the number of targets, and equal to it when max_items is unset
C2_OutcomeSum ==
    BatchFinished =>
        /\ updated + Cardinality(FailedPos) <= Len(ids)
        /\ (args.max_items = None /\ RealRun) =>
               updated + Cardinality(FailedPos) = Len(ids)

C2_Witness ==
    /\ BatchFinished
    /\ args.max_items = None
    /\ RealRun
    /\ updated >= 1
    /\ Cardinality(FailedPos) >= 1

\* C3: the batch loop always terminates and reports, and in a real run a
\* target that exhausted its attempts does not keep any later target from
\* being called, unless max_items has been reached
C3_NoAbort ==
    /\ InBatch ~> BatchFinished
    /\ [](BatchFinished /\ RealRun =>
            \A i \in Exhausted : \A j \in (i + 1)..Len(ids) :
                \/ CallsFor(j) # {}
                \/ (driver = "cli" /\ Truthy(args.max_items)
                      /\ updated >= args.max_items[1]))

C3_Witness ==
    /\ BatchFinished
    /\ \E i \in Exhausted : \E j \in (i + 1)..Len(ids) : OkFor(j) # {}

\* number of successful calls before log position p
OkBefore(p) == Cardinality({ q \in CallPos : q < p /\ log[q].op = "update_ok" })

\* C4: with max_items = N > 0 no update call follows the N-th success, the
\* success count never exceeds N, and the targets after the stopping point
\* have no call, no success and no failure report
C4_MaxItemsStop ==
    (driver = "cli" /\ Truthy(args.max_items) /\ (InBatch \/ BatchFinished)) =>
        /\ updated <= args.max_items[1]
        /\ \A p \in CallPos : OkBefore(p) < args.max_items[1]
        /\ BatchFinished =>
              \A j \in idx..Len(ids) : CallsFor(j) = {} /\ FailedFor(j) = {}

C4_Witness ==
    /\ driver = "cli"
    /\ Truthy(args.max_items)
    /\ BatchFinished
    /\ RealRun
    /\ updated = args.max_items[1]
    /\ idx <= Len(ids)

\* C5 as stated: with max_items = N set, at most N targets are attempted
C5_AttemptedAtMostN ==
    (driver = "cli" /\ Truthy(args.max_items) /\ (InBatch \/ BatchFinished)) =>
        Cardinality(Attempted) <= args.max_items[1]

\* C5 amended: with max_items = N > 0 at most N targets are updated, and the
\* targets attempted are at most N plus the targets that exhausted their
\* retries (a failed target does not count towards max_items)
C5_AttemptedBound ==
    (driver = "cli" /\ Truthy(args.max_items) /\ (InBatch \/ BatchFinished)) =>
        /\ updated <= args.max_items[1]
        /\ Cardinality(Attempted) <= args.max_items[1] + Cardinality(Exhausted)

C5_Witness ==
    /\ driver = "cli"
    /\ Truthy(args.max_items)
    /\ BatchFinished
    /\ Cardinality(Attempted) > args.max_items[1]
    /\ updated = args.max_items[1]

\* the delay the claim states, from the configuration of the run
EffectiveDelay ==
    IF driver = "cli"
    THEN IF args.max_per_minute # None /\ args.max_per_minute[1] > 0
         THEN Max(args.sleep, 60000 \div args.max_per_minute[1])
         ELSE args.sleep
    ELSE IF ui.max_per_min > 0 THEN Max(0, 60000 \div ui.max_per_min) ELSE 0

ItemSleepFor(i) == { p \in 1..Len(log) : log[p].op = "item_sleep" /\ log[p].m = i }

\* C6: after every processed target, succeeded or exhausted, and before the
\* first call of the next target, the loop sleeps the effective delay once
\* (no sleep when the delay is 0); 30 per minute and no fixed delay give 2 s
C6_InterItemDelay ==
    \A i \in Processed :
        IF EffectiveDelay = 0
        THEN ItemSleepFor(i) = {}
        ELSE /\ Cardinality(ItemSleepFor(i)) = 1
             /\ \A p \in ItemSleepFor(i) :
                   /\ log[p].n = EffectiveDelay
                   /\ \A q \in CallsFor(i) : q < p
                   /\ \A q \in CallsFor(i + 1) : p < q

C6_Witness ==
    /\ BatchFinished
    /\ RealRun
    /\ EffectiveDelay = 2000
    /\ \E i \in Exhausted : \E j \in Processed :
          /\ j = i + 1
          /\ OkFor(j) # {}
          /\ ItemSleepFor(i) # {}
          /\ ItemSleepFor(j) # {}

\* failed attempts of the target of the call at p, up to and including p
RaisesUpTo(p) == Cardinality({ q \in RaisesFor(log[p].n) : q <= p })

\* the delays the claim lists, in ms
ClaimedBackoff(k) == CASE k = 1 -> 500 [] k = 2 -> 1000 [] k = 3 -> 2000
                     [] k = 4 -> 4000 [] OTHER -> 8000

\* C7: in both loops the sleep after the k-th failed attempt of a target is
\* 0.5, 1, 2, 4 seconds for k = 1..4, never more than 8 seconds, and the
\* count starts again with every target
C7_BackoffSchedule ==
    /\ \A p \in CallPos :
          log[p].op = "update_raise" =>
              /\ p < Len(log)
              /\ log[p + 1].op = "backoff"
              /\ log[p + 1].n = ClaimedBackoff(RaisesUpTo(p))
    /\ \A p \in 1..Len(log) :
          log[p].op = "backoff" =>
              /\ log[p].n <= 8000
              /\ p > 1 /\ log[p - 1].op = "update_raise"
    /\ \A i \in Attempted : \A p \in CallsFor(i) :
          (\A q \in CallsFor(i) : p <= q) /\ log[p].op = "update_raise"
              => log[p + 1].n = 500

C7_Witness ==
    /\ BatchFinished
    /\ driver = "ui"
    /\ \E i \in Processed :
          /\ Cardinality(RaisesFor(i)) = 4
          /\ Cardinality(RaisesFor(i + 1)) = 2
          /\ OkFor(i + 1) # {}

NoCalls(l) == \A p \in 1..Len(l) : ~IsCall(l[p])
NoneSelected(d) == \A i \in 1..Len(d) : ~d[i].v

\* C8: an empty resolved target list (cli: credentials and date accepted, no
\* --ids and nothing fetched; ui: no key with value true) issues no update
\* call and raises nothing; main returns 0 and the loop is never entered
\* with an empty list
C8_EmptyTargets ==
    /\ [](InBatch => ids # <<>>)
    /\ [][ /\ (driver = "cli" /\ pc \in {"main", "fetch"}
                 /\ ~CredentialsMissing(args, environ)
                 /\ pc' \notin {"fetch", "raised", "exit"} /\ ids' = <<>>)
              => (pc' = "done" /\ exit_code' = Some(0) /\ NoCalls(log'))
           /\ (ApplyToSelected /\ NoneSelected(selected))
              => (pc' = "render_list" /\ NoCalls(log') /\ exit_code' = None) ]_vars
    /\ [](driver = "cli" /\ pc = "done" /\ ids = <<>>
              /\ ~CredentialsMissing(args, environ)
            => exit_code = Some(0) /\ NoCalls(log))

C8_Witness ==
    \/ /\ driver = "cli" /\ pc = "done" /\ ids = <<>> /\ args.ids = <<>>
       /\ Len(catalog.items) = MaxCatalog /\ args.title_contains # <<>>
       /\ exit_code = Some(0)

C8_WitnessUi ==
    /\ driver = "ui" /\ pc = "render_list"
    /\ selected # <<>> /\ NoneSelected(selected)
    /\ log # <<>> /\ log[1] = Ev("warning", "", 0, 0)

\* C9: update calls follow the order of the target list: the positions of
\* successive calls never decrease and never skip a target, each call goes
\* to the identifier at its position, so all calls of target i precede the
\* first call of target i + 1 and the attempted targets are a prefix
C9_InOrder ==
    (InBatch \/ BatchFinished) =>
        LET cs == SelectSeq(log, IsCall) IN
        /\ cs # <<>> => cs[1].n = 1
        /\ \A k \in 1..Len(cs) : cs[k].n \in 1..Len(ids) /\ cs[k].id = ids[cs[k].n]
        /\ \A k \in 1..(Len(cs) - 1) : cs[k + 1].n \in {cs[k].n, cs[k].n + 1}
        /\ Attempted = 1..Cardinality(Attempted)

C9_Witness ==
    /\ BatchFinished
    /\ Len(ids) >= 2
    /\ ids[1] # ids[2]
    /\ Cardinality(RaisesFor(1)) >= 2
    /\ OkFor(1) # {}
    /\ CallsFor(2) # {}

\* ---- reading the fetches of the running pass ----
FetchPos == { p \in 1..Len(log) : log[p].op = "fetch" }
RECURSIVE FetchStarts(_)
\* the start offsets of the fetch calls, in call order
FetchStarts(l) ==
    IF l = <<>> THEN <<>>
    ELSE (IF Head(l).op = "fetch" THEN <<Head(l).n>> ELSE <<>>) \o FetchStarts(Tail(l))

\* the enumeration of the running pass is complete
EnumComplete ==
    \/ driver = "cli" /\ args.ids = <<>> /\ pc \in {"loop", "attempt", "done"}
    \/ driver = "ui" /\ (HasOp("selected") \/ HasOp("in_range"))
EnumRunning == pc \in {"fetch", "sel_fetch", "range_fetch"}
EnumPageSize == IF driver = "cli" THEN args.page_size ELSE ui.page_size
AllPagesNonEmpty == \A p \in FetchPos : log[p].m > 0
CeilDiv(t, n) == (t + n - 1) \div n

C10_WitnessCli ==
    /\ driver = "cli"
    /\ EnumComplete
    /\ AllPagesNonEmpty
    /\ catalog.total = 2
    /\ args.page_size = 1
    /\ FetchStarts(log) = <<0, 1>>

\* ---- reading the enumeration of the running pass ----
IsFetch(e) == e.op \in {"fetch", "fetch_raise"}
\* the fetch calls of the pass, returned or raised, in call order
FetchCalls == SelectSeq(log, IsFetch)

RECURSIVE KeptItems(_)
\* the items the title filter let through, page after page
KeptItems(l) ==
    IF l = <<>> THEN <<>>
    ELSE (IF Head(l).op = "fetch" THEN Head(l).kept ELSE <<>>) \o KeptItems(Tail(l))

CliEnum == driver = "cli" /\ args.ids = <<>>
SelectAllPass == driver = "ui" /\ ui.event = "select_all_results"
RangePass == driver = "ui" /\ ui.event \in {"select_range", "deselect_range"}

\* the identifiers whose value is true
TrueSet(d) == { d[i].k : i \in { j \in 1..Len(d) : d[j].v } }
DictKeys(d) == { d[i].k : i \in 1..Len(d) }

\* C11: in every enumeration loop no fetch call follows a fetch that returned
\* an empty page, and none follows a page that reaches the reported total
C11_StopsAtEmptyPage ==
    LET fc == FetchCalls IN
    \A k \in 1..(Len(fc) - 1) :
        /\ fc[k].op = "fetch"
        /\ fc[k].m > 0
        /\ fc[k].n + EnumPageSize < catalog.total

\* the command line loop alone stops at an empty page
C11_CliStopsAtEmptyPage ==
    CliEnum =>
        LET fc == FetchCalls IN
        \A k \in 1..(Len(fc) - 1) : fc[k].op = "fetch" /\ fc[k].m > 0

\* C12: within one enumeration pass no identifier is yielded, or counted as
\* selected or touched, more than once
C12_YieldedOnce ==
    /\ CliEnum => \A i, j \in 1..Len(ids) : i # j => ids[i] # ids[j]
    /\ SelectAllPass => selected_count <= Cardinality(Keys(KeptItems(log)))
    /\ RangePass => touched <= Cardinality(Keys(KeptItems(log)))

\* ---- the title filter, as the claim words it ----
SameLetter(c, d) == c = d \/ {c, d} = {"A", "a"} \/ {c, d} = {"B", "b"}
\* hay contains n when case is ignored
CiContains(n, hay) ==
    \E o \in 0..(Len(hay) - Len(n)) : \A i \in 1..Len(n) : SameLetter(hay[o + i], n[i])
\* the needle of the running pass; the ui hands _render_items the typed text
\* without the blanks around it
Needle == IF driver = "cli" THEN args.title_contains ELSE ui.title_filter
Blanks(t) == \A i \in 1..Len(t) : t[i] = " "
IsTrimOf(n, t) ==
    /\ n = <<>> \/ (n[1] # " " /\ n[Len(n)] # " ")
    /\ \E i \in 1..(Len(t) + 1), j \in 0..Len(t) :
          /\ i <= j + 1
          /\ CiContains(n, SubSeq(t, i, j)) /\ Len(n) = j - i + 1
          /\ Blanks(SubSeq(t, 1, i - 1))
          /\ Blanks(SubSeq(t, j + 1, Len(t)))

\* C13: with a title filter, what survives a fetched page is exactly the
\* items of the page whose title contains the needle when case is ignored, in
\* page order, and a fetch request carries no filter but the year
C13_TitleFilter ==
    /\ driver = "ui" => IsTrimOf(ui.title_filter, ui.title)
    /\ \A p \in FetchPos :
          /\ log[p].sent \subseteq {"year"}
          /\ Needle # <<>> =>
                log[p].kept = SelectSeq(log[p].items, LAMBDA i : CiContains(Needle, i.title))

C13_Witness ==
    /\ SelectAllPass
    /\ ui.title = <<" ", "A">>
    /\ \E p \in FetchPos :
          /\ log[p].items = <<ItemB, ItemA>>
          /\ log[p].kept = <<ItemA>>
          /\ log[p].sent = {"year"}

C13_WitnessCli ==
    /\ CliEnum
    /\ args.title_contains = <<"A">>
    /\ args.year = ""
    /\ \E p \in FetchPos :
          /\ log[p].items = <<ItemA, ItemB>>
          /\ log[p].kept = <<ItemA>>
          /\ log[p].sent = {}

\* C14: when fetch_items raises in an enumeration pass, that call is the
\* last fetch call of the pass and the only one that raised, the exception
\* leaves the enumeration (main returns nothing, the script run ends without
\* its report), and no update call is made
C14_FetchErrorPropagates ==
    HasOp("fetch_raise") =>
        LET fc == FetchCalls IN
        /\ fc[Len(fc)].op = "fetch_raise"
        /\ \A k \in 1..(Len(fc) - 1) : fc[k].op = "fetch"
        /\ pc = "raised"
        /\ exit_code = None
        /\ NoCalls(log)
        /\ ~HasOp("matched") /\ ~HasOp("no_match") /\ ~HasOp("done")
        /\ ~HasOp("selected") /\ ~HasOp("in_range")

C14_Witness ==
    /\ RangePass
    /\ pc = "raised"
    /\ Len(FetchCalls) = 2
    /\ FetchCalls[1].m > 0
    /\ FetchCalls[2].op = "fetch_raise"
    /\ catalog.total > 2

C14_WitnessCli ==
    /\ CliEnum
    /\ pc = "raised"
    /\ Len(FetchCalls) = 2
    /\ FetchCalls[2].op = "fetch_raise"

C14_WitnessSelectAll ==
    /\ SelectAllPass
    /\ pc = "raised"
    /\ Len(FetchCalls) = 2
    /\ FetchCalls[2].op = "fetch_raise"
    /\ selected # selected0

\* ---- the date range, as the claim words it ----
\* 00:00:00 of from_date and 23:59:59 of to_date, in seconds
ClaimFromTs == ui.range_from * 86400
ClaimToTs == ui.range_to * 86400 + 23 * 3600 + 59 * 60 + 59
ClaimAt(it) == IF it.addedAt = <<>> THEN 0 ELSE it.addedAt[1]
ClaimInRange(it) == ClaimFromTs <= ClaimAt(it) /\ ClaimAt(it) <= ClaimToTs
\* the enumerated items in range
InRangeItems == SelectSeq(KeptItems(log), ClaimInRange)
RangeDone == RangePass /\ HasOp("in_range")

\* C15: a range pass touches exactly the enumerated items whose addedAt (0
\* when missing) lies between 00:00:00 of from_date and 23:59:59 of to_date,
\* both seconds included: it counts each of them, gives each of their
\* identifiers the flag, and changes no entry but theirs
C15_RangeBounds ==
    (RangePass /\ pc \in {"range_fetch", "render_list", "raised"}) =>
        /\ touched = Len(InRangeItems)
        /\ \A k \in Keys(InRangeItems) : DictHas(selected, k) /\ DictGet(selected, k) = ui.select
        /\ \A k \in DictKeys(selected) \cup DictKeys(selected0) :
              (DictHas(selected, k) # DictHas(selected0, k)
                 \/ DictGet(selected, k) # DictGet(selected0, k))
              => k \in Keys(InRangeItems)

\* both bounds are hit and included
C15_Witness ==
    /\ RangeDone
    /\ ui.range_from = 1 /\ ui.range_to = 1
    /\ KeptItems(log) = <<ItemA, ItemB>>
    /\ ClaimAt(ItemA) = ClaimFromTs
    /\ ClaimAt(ItemB) = ClaimToTs
    /\ touched = 2

\* one second past the upper bound is left out, a missing addedAt is taken in
\* by a range that starts at the epoch
C15_WitnessOutside ==
    /\ RangeDone
    /\ ui.range_from = 0 /\ ui.range_to = 0
    /\ Len(KeptItems(log)) = 2
    /\ KeptItems(log)[1] = ItemA
    /\ KeptItems(log)[2].addedAt = <<>>
    /\ ClaimAt(ItemA) = ClaimToTs + 1
    /\ touched = 1

\* one second before the lower bound is left out
C15_WitnessBefore ==
    /\ RangeDone
    /\ ui.range_from = 2 /\ ui.range_to = 2
    /\ KeptItems(log) = <<ItemB>>
    /\ ClaimAt(ItemB) = ClaimFromTs - 1
    /\ touched = 0

DisplayRun == driver = "ui" /\ pc = "rendered" /\ ui.event \in {"goto_page", "refresh"}

\* C17: a script run that only draws a page of the list (the same page again,
\* or another page) selects nothing and deselects nothing
C17_DisplayKeepsSelection ==
    DisplayRun => TrueSet(selected) = TrueSet(selected0)

\* ---- the two selection stores ----
OtherKey == IF active = "movie" THEN "show_selected" ELSE "movie_selected"

\* C18: no step of a session on one list changes the selection mapping of
\* the other list
C18_OtherListUntouched ==
    [][driver = "ui" => session'[OtherKey] = session[OtherKey]]_vars

\* every kind of operation on the show list has changed its selection, and
\* the movie list holds what it held
C18_Witness ==
    /\ driver = "ui" /\ active = "show" /\ pc = "rendered"
    /\ ui.event = "clear_all"
    /\ TrueSet(selected0) # {}
    /\ session["show_selected"] = selected
    /\ selected # selected0
    /\ session["movie_selected"] = OtherSelected

C18_WitnessMovie ==
    /\ driver = "ui" /\ active = "movie" /\ pc = "rendered"
    /\ ui.event = "select_range"
    /\ TrueSet(selected) # TrueSet(selected0)
    /\ session["movie_selected"] = selected
    /\ session["show_selected"] = OtherSelected

\* C19: the caption counts exactly the identifiers whose value is true, the
\* batch target list is exactly those identifiers, each once, and an
\* identifier stored with false gets no update call
C19_OnlyTrueCounts ==
    driver = "ui" =>
        /\ (pc = "render_list" /\ log # <<>> /\ log[Len(log)].op = "caption")
              => log[Len(log)].n = Cardinality(TrueSet(selected))
        /\ (RangePass /\ log # <<>>)
              => log[1].op = "caption" /\ log[1].n = Cardinality(TrueSet(selected0))
        /\ (InBatch \/ (BatchFinished /\ pc = "render_list")) =>
              /\ { ids[i] : i \in 1..Len(ids) } = TrueSet(selected)
              /\ Len(ids) = Cardinality(TrueSet(selected))
              /\ \A p \in CallPos : DictGet(selected, log[p].id)

C19_Witness ==
    /\ driver = "ui" /\ pc = "render_list"
    /\ BatchFinished
    /\ \E i \in 1..Len(selected) : ~selected[i].v
    /\ \E i \in 1..Len(selected) : selected[i].v
    /\ CallPos # {}
    /\ log[Len(log)].op = "caption" /\ log[Len(log)].n = 1

\* C20: a dry run makes no update call and prints one planned-update line for
\* each entry of the resolved target list, in list order
C20_DryRun ==
    (driver = "cli" /\ args.dry_run) =>
        LET pl == SelectSeq(log, LAMBDA e : e.op = "planned") IN
        /\ NoCalls(log)
        /\ InBatch => Len(pl) = idx - 1
        /\ pc = "done" => Len(pl) = Len(ids)
        /\ \A k \in 1..Len(pl) : k <= Len(ids) /\ pl[k].id = ids[k] /\ pl[k].n = k

C20_Witness ==
    /\ driver = "cli" /\ args.dry_run /\ pc = "done"
    /\ Len(ids) = 2
    /\ Truthy(args.max_items)
    /\ Len(SelectSeq(log, LAMBDA e : e.op = "planned")) = 2
    /\ NoCalls(log)

\* ---- the credentials and the exit code, as the claim words them ----
\* a base URL is given by the flag, or by the environment with more in it
\* than slashes; a token is given by the flag or by the environment
HasUrl ==
    \/ NonEmpty(args.base_url)
    \/ /\ environ.PLEX_BASE_URL # None
       /\ \E i \in 1..Len(environ.PLEX_BASE_URL[1]) : environ.PLEX_BASE_URL[1][i] # "/"
HasToken == NonEmpty(args.token) \/ NonEmpty(environ.PLEX_TOKEN)
UsageError == \E p \in 1..Len(log) : log[p].op = "system_exit" /\ log[p].n = 2
\* main has gone past its credentials check
PastCredentials == driver = "cli" /\ pc \notin {"parse", "main"} /\ ~UsageError
NoRemoteCall(l) == \A p \in 1..Len(l) : ~IsCall(l[p]) /\ ~IsFetch(l[p])

\* C21: main returns 2 without any remote call when the base URL or the
\* token is missing, and every other run that returns, returns 0
C21_ExitCodes ==
    PastCredentials =>
        /\ ~(HasUrl /\ HasToken) =>
              pc = "done" /\ exit_code = Some(2) /\ NoRemoteCall(log)
        /\ (HasUrl /\ HasToken /\ pc = "done") => exit_code = Some(0)
        /\ exit_code # None => pc = "done"

\* the token is missing, the rest is in order
C21_Witness ==
    /\ driver = "cli" /\ pc = "done" /\ exit_code = Some(2)
    /\ HasUrl /\ ~HasToken
    /\ to_unix(args.date[1]) # None

\* a run in which every target exhausted its retries returns 0
C21_WitnessAllFailed ==
    /\ driver = "cli" /\ pc = "done" /\ exit_code = Some(0)
    /\ Len(ids) = 2 /\ Exhausted = {1, 2}

\* a run without matches returns 0
C21_WitnessNoMatch ==
    /\ driver = "cli" /\ pc = "done" /\ exit_code = Some(0)
    /\ HasOp("no_match")

\* ---- the date, as the claim words it ----
\* the run was given a --date value that strptime rejects
BadDate == driver = "cli" /\ args.date # None /\ Strptime(Chars(args.date[1])) = None
\* 00:00:00 of the dates the model hands in, in seconds
ClaimUnix(d) ==
    CASE d = "1970-01-02" -> 86400
      [] d = "1970-1-2" -> 86400
      [] d = "1972-02-29" -> 68169600
      [] OTHER -> -1
InvalidDateExit ==
    /\ pc = "exit"
    /\ exit_code = None
    /\ log = <<SystemExit("Invalid --date value", 1)>>

\* C22: as stated, every run with an unparsable --date ends in SystemExit
\* with the message 'Invalid --date value'
C22_InvalidDateExit ==
    (PastCredentials /\ BadDate) => InvalidDateExit

\* C22: with both credentials present, a run with an unparsable --date ends
\* in a non-zero SystemExit with the message 'Invalid --date value'; without
\* them main returns 2 before it looks at the date; either way no fetch or
\* update call is made, and every update call of any run carries 00:00:00 of
\* the date that was given
C22_InvalidDateExitWithCredentials ==
    /\ (PastCredentials /\ BadDate) =>
          /\ IF HasUrl /\ HasToken
             THEN InvalidDateExit /\ log[1].n # 0
             ELSE pc = "done" /\ exit_code = Some(2)
          /\ NoRemoteCall(log)
    /\ driver = "cli" =>
          \A p \in CallPos : ~BadDate /\ log[p].unix = ClaimUnix(args.date[1])

\* the date of the test suite's kind: month 13, day 40
C22_Witness ==
    /\ driver = "cli" /\ pc = "exit"
    /\ args.date = Some("1970-13-40")
    /\ HasUrl /\ HasToken
    /\ log = <<SystemExit("Invalid --date value", 1)>>

\* a day that does not exist in its year is rejected, in a leap year it is
\* the date of the call
C22_WitnessNoSuchDay ==
    /\ driver = "cli" /\ pc = "exit" /\ args.date = Some("1971-02-29")

C22_WitnessLeapDay ==
    /\ driver = "cli" /\ args.date = Some("1972-02-29")
    /\ \E p \in CallPos : log[p].unix = 68169600

\* ---- the command line, as the claim words it ----
\* C23: parse_args(["--list-sections"]) returns a namespace whose
\* list_sections is true, without --section-id or --date
C23_ListSections ==
    (driver = "cli" /\ argv = <<"--list-sections">> /\ pc # "parse") =>
        /\ pc # "exit"
        /\ "list_sections" \in DOMAIN args
        /\ args["list_sections"] = TRUE

\* the command line of the test suite's first test is accepted
C23_MinimalUpdateParsed ==
    (driver = "cli" /\ argv = <<"--section-id", "1", "--date", "1970-01-02">> /\ pc # "parse")
    => /\ pc # "exit"
       /\ args.section_id = Some("1") /\ args.date = Some("1970-01-02")

\* ---- the outcome of each target ----
Succeeded == { i \in 1..Len(ids) : OkFor(i) # {} }
LastOf(S) == CHOOSE p \in S : \A q \in S : q <= p

\* C24: a target that exhausted its attempts has exactly one failure report,
\* with its identifier and the error of its last attempt; a target that
\* succeeded on any attempt is counted once, gets no call after the one that
\* succeeded, and has no failure report
C24_OutcomePerTarget ==
    (RealRun /\ (InBatch \/ BatchFinished)) =>
        /\ \A i \in Processed :
              (CallsFor(i) # {} /\ OkFor(i) = {}) =>
                  /\ Cardinality(FailedFor(i)) = 1
                  /\ \A p \in FailedFor(i) :
                        /\ log[p].id = ids[i]
                        /\ log[p].n = LastOf(RaisesFor(i))
                        /\ log[log[p].n].m = MaxAttempts
        /\ \A i \in Succeeded :
              /\ Cardinality(OkFor(i)) = 1
              /\ \A p \in OkFor(i) : p = LastOf(CallsFor(i)) /\ log[p].m \in 1..4
              /\ FailedFor(i) = {}
        /\ updated = Cardinality(Succeeded)
        /\ \A p \in FailedPos : log[p].m \in Processed \ Succeeded

\* one target succeeded on its 4th attempt, the next one exhausted its four
C24_Witness ==
    /\ BatchFinished /\ RealRun
    /\ Len(ids) = 2
    /\ \E p \in OkFor(1) : log[p].m = 4
    /\ Cardinality(RaisesFor(2)) = 4 /\ FailedFor(2) # {}
    /\ updated = 1

C24_WitnessUi ==
    /\ C24_Witness
    /\ driver = "ui"

\* ---- the batch policy, replayed from its inputs ----
\* the inputs of the running batch, whichever driver runs it
BatchRate ==
    IF driver = "cli"
    THEN IF args.max_per_minute = None THEN 0 ELSE args.max_per_minute[1]
    ELSE ui.max_per_min
BatchUnix == IF driver = "cli" THEN ClaimUnix(args.date[1]) ELSE ui.batch_date * 86400
BatchLock == IF driver = "cli" THEN ~args.no_lock ELSE ui.lock
\* the answers of the remote to the update calls, in order (TRUE = returned)
Responses(l) ==
    LET calls == SelectSeq(l, IsCall)
    IN  [k \in 1..Len(calls) |-> calls[k].op = "update_ok"]

\* what the two drivers are compared on: update calls with their arguments,
\* sleeps with their length, failure reports with their identifier
Step(op, id, unix, lock, ms) == [op |-> op, id |-> id, unix |-> unix, lock |-> lock, ms |-> ms]
Visible(e) == IsCall(e) \/ e.op \in {"backoff", "item_sleep", "failed"}
Project(e) ==
    IF IsCall(e) THEN Step(e.op, e.id, e.unix, e.lock, 0)
    ELSE IF e.op = "failed" THEN Step("failed", e.id, 0, FALSE, 0)
    ELSE Step("sleep", "", 0, FALSE, e.n)
Trace(l) ==
    LET v == SelectSeq(l, Visible) IN [k \in 1..Len(v) |-> Project(v[k])]

RateDelay(rate) == IF rate > 0 THEN 60000 \div rate ELSE 0
Pause(ms) == IF ms # 0 THEN <<Step("sleep", "", 0, FALSE, ms)>> ELSE <<>>

\* the steps of the policy on targets from position i on, after k failed
\* attempts on target i, when the remote answers r
RECURSIVE Replay(_, _, _, _, _, _, _)
Replay(targets, i, k, r, unix, lock, delay) ==
    IF i > Len(targets) \/ r = <<>> THEN <<>>
    ELSE IF Head(r)
    THEN <<Step("update_ok", targets[i], unix, lock, 0)>> \o Pause(delay)
         \o Replay(targets, i + 1, 0, Tail(r), unix, lock, delay)
    ELSE <<Step("update_raise", targets[i], unix, lock, 0),
           Step("sleep", "", 0, FALSE, ClaimedBackoff(k + 1))>>
         \o (IF k + 1 = 4
             THEN <<Step("failed", targets[i], 0, FALSE, 0)>> \o Pause(delay)
                  \o Replay(targets, i + 1, 0, Tail(r), unix, lock, delay)
             ELSE Replay(targets, i, k + 1, Tail(r), unix, lock, delay))

\* the settings under which the claim compares the two loops
Comparable ==
    /\ BatchFinished
    /\ driver = "cli" => (args.sleep = 0 /\ args.max_items = None /\ ~args.dry_run)

\* C25: with fixed sleep 0, no max_items and no dry run, the update calls,
\* sleeps and failure reports of a finished batch are the same function of
\* the target list, the date, the lock flag, the rate and the answers of the
\* remote in the command line loop and in "Apply to selected", and the
\* success counter is the number of calls that returned
C25_SamePolicy ==
    Comparable =>
        /\ Trace(log) = Replay(ids, 1, 0, Responses(log), BatchUnix, BatchLock,
                               RateDelay(BatchRate))
        /\ updated = Cardinality({ k \in 1..Len(Responses(log)) : Responses(log)[k] })

\* the same inputs in both drivers: targets a and b at 30 per minute, a
\* succeeds on its second attempt, b never does
SharedRun ==
    /\ Comparable
    /\ ids = <<"a", "b">>
    /\ BatchRate = 30 /\ BatchUnix = 86400 /\ BatchLock
    /\ Responses(log) = <<FALSE, TRUE, FALSE, FALSE, FALSE, FALSE>>

C25_Witness == SharedRun /\ driver = "cli"

C25_WitnessUi == SharedRun /\ driver = "ui"

\* the other date and no lock, in both drivers
C25_WitnessNoLockCli ==
    Comparable /\ driver = "cli" /\ ~BatchLock /\ BatchUnix = 68169600 /\ CallPos # {}

C25_WitnessNoLockUi ==
    Comparable /\ driver = "ui" /\ ~BatchLock /\ BatchUnix = 68169600 /\ CallPos # {}

\* ---- the batch, run again ----
AllReturned == \A p \in CallPos : log[p].op = "update_ok"
\* the batch before this one in the session had the same targets, and every
\* call of it returned
SecondRun == driver = "ui" /\ prev = Some(ids)

\* C26: a finished batch whose update calls all returned has made exactly one
\* call per target, in list order, and reports every target as succeeded and
\* none as failed, whether or not a batch with the same targets ran before it
C26_RunAgain ==
    (BatchFinished /\ RealRun /\ AllReturned /\ (driver = "cli" => args.max_items = None)) =>
        /\ updated = Len(ids)
        /\ \A i \in 1..Len(ids) : Cardinality(CallsFor(i)) = 1
        /\ [k \in 1..Len(Responses(log)) |-> SelectSeq(log, IsCall)[k].id] = ids
        /\ FailedPos = {}
        /\ \E p \in 1..Len(log) : log[p].op = "done" /\ log[p].n = Len(ids)

\* the second of two batches with the same two targets has succeeded
C26_Witness ==
    /\ SecondRun
    /\ BatchFinished /\ AllReturned
    /\ Len(ids) = 2
    /\ updated = 2

\* ---- backoff between attempts ----
\* C27: every backoff sleep is followed by another attempt on the same
\* target: none follows the 4th failed attempt, and a failure report comes
\* right after the call that raised
C27_BackoffOnlyBetweenAttempts ==
    /\ \A p \in 1..Len(log) : log[p].op = "backoff" => log[p].m < MaxAttempts
    /\ \A p \in FailedPos : IsCall(log[p - 1])

\* the backoff sleeps before the attempts 2 to 4 are as C7 lists them
C27_BackoffBeforeRetry ==
    \A p \in CallPos :
        log[p].m > 1 =>
            /\ log[p - 1].op = "backoff"
            /\ log[p - 1].n = ClaimedBackoff(log[p].m - 1)
            /\ log[p - 2].op = "update_raise" /\ log[p - 2].n = log[p].n

\* ---- progress of "Apply to selected" ----
ProgressPos == { p \in 1..Len(log) : log[p].op = "progress" }
\* the whole part of 100 * k / total
ClaimFloor(k, total) ==
    CHOOSE q \in 0..100 : q * total <= 100 * k /\ 100 * k < (q + 1) * total
ApplyPass == driver = "ui" /\ ui.event = "apply" /\ (InBatch \/ BatchFinished)

\* C28: in "Apply to selected" there is one progress report per completed
\* target, the k-th is the whole part of 100 * k / total whatever the
\* attempts, reports never decrease, and the last one is 100
C28_Progress ==
    ApplyPass =>
        /\ Cardinality(ProgressPos) = Cardinality(Processed)
        /\ \A p \in ProgressPos :
              /\ log[p].m = Cardinality({ q \in ProgressPos : q <= p })
              /\ log[p].n = ClaimFloor(log[p].m, Len(ids))
        /\ \A p, q \in ProgressPos : p < q => log[p].n <= log[q].n
        /\ BatchFinished => \E p \in ProgressPos : log[p].m = Len(ids) /\ log[p].n = 100

\* three targets with different numbers of attempts: 33, 66, 100
C28_Witness ==
    /\ ApplyPass /\ BatchFinished
    /\ Len(ids) = 3
    /\ Cardinality(CallsFor(1)) = 1 /\ Cardinality(CallsFor(2)) = 4
    /\ Cardinality(CallsFor(3)) = 2
    /\ \E p, q, r \in ProgressPos : log[p].n = 33 /\ log[q].n = 66 /\ log[r].n = 100

\* ---- C29 ----
\* _handle_query_nav has returned: the script run went on to draw the list
HandlerReturned == driver = "ui" /\ pc = "nav_shown"

\* C29: every movie_nav and movie_goto query parameter is consumed by the
\* pass that reads it: once _handle_query_nav has returned, neither of the
\* two is left in the query string, whatever its value and whatever the page.
C29_ParamsConsumed ==
    HandlerReturned => ~InQuery(query_params, NavKey) /\ ~InQuery(query_params, GotoKey)

\* ---- C30 ----
\* the flag of the tab: sessionStorage holds ui_density_boot
Booted == JsTruthy(session_storage)

\* C30: the density bootstrap cannot loop: in one browser tab session it
\* replaces the page location at most once, whatever localStorage holds (a
\* valid density or not) and whatever density the server has, and a tab that
\* was redirected carries the sessionStorage flag.
C30_RedirectsOnce ==
    driver = "ui" => redirects <= 1 /\ (redirects = 1 => Booted)

\* the tab was redirected once, and the page now on display again differs
\* from a stored density (here one the server does not accept)
C30_Witness ==
    /\ pc = "density_shown"
    /\ redirects = 1
    /\ local_storage = Some("bogus")
    /\ served # "bogus"
    /\ InQuery(query_params, DensityKey)

\* the redirect carried a valid density: the server took it over and removed
\* the parameter; the user then picked another one
C30_WitnessValid ==
    /\ pc = "density_shown"
    /\ redirects = 1
    /\ local_storage = Some("Compact")
    /\ served = "Spacious"
    /\ ~InQuery(query_params, DensityKey)

\* ---- C31 ----
\* the script run that handled "Clear all" has drawn its list
ClearAllPassOver == driver = "ui" /\ pc = "rendered" /\ ui.event = "clear_all"

\* C31: once "Clear all" has been handled and the same render pass has
\* finished, no identifier of the list has selection value true, whatever
\* the "Select all on page" checkbox and the items on display.
C31_ClearAllLeavesNone ==
    ClearAllPassOver => TrueKeys(selected) = <<>>

\* ---- C32 ----
\* the script run that handles "Apply to selected", from the first target to
\* the end of the handler (the list below it is not drawn yet)
ApplyRunning == driver = "ui" /\ ui.event = "apply" /\ pc \in {"loop", "attempt", "render_list"}
ApplyFinished == ApplyRunning /\ pc = "render_list" /\ HasOp("done")

\* C32: a batch run never changes the selection: while "Apply to selected"
\* runs and when it has finished, the mapping (and with it the identifiers
\* with value true) is what it was when the run began, whether the update
\* calls returned or raised.
C32_BatchKeepsSelection ==
    ApplyRunning => /\ selected = selected0
                 /\ session[SelectKey(active)] = selected0
                 /\ (ApplyFinished => TrueKeys(selected) = ids)

\* a finished batch with one updated and one failed identifier
C32_Witness ==
    /\ ApplyFinished
    /\ \E i, j \in 1..Len(ids) : OkFor(i) # {} /\ FailedFor(j) # {}
    /\ Len(TrueKeys(selected)) >= 2

\* ---- C33 ----
RECURSIVE RealUpdates(_, _, _)
\* the ids a real run updates when every call succeeds: the loop of main
\* with updated = u at its head, each call adding one
RealUpdates(l, m, u) ==
    IF l = <<>> \/ (Truthy(m) /\ u >= m[1]) THEN <<>>
    ELSE <<Head(l)>> \o RealUpdates(Tail(l), m, u + 1)

IdsOf(o) == LET es == SelectSeq(log, LAMBDA e : e.op = o)
            IN  [k \in 1..Len(es) |-> es[k].id]

CliDone == driver = "cli" /\ pc = "done" /\ ids # <<>>

\* a real run in which every call succeeded updates RealUpdates of its list
C33_RealRunUpdates ==
    (CliDone /\ RealRun /\ IdsOf("update_raise") = <<>>)
        => IdsOf("update_ok") = RealUpdates(ids, args.max_items, 0)

\* C33: for any id list and any --max-items, the ids a --dry-run run prints
\* are exactly the ids the real run with the same arguments updates when
\* every remote call succeeds.
C33_DryRunPreview ==
    (CliDone /\ args.dry_run) => IdsOf("planned") = RealUpdates(ids, args.max_items, 0)

\* ---- C34 ----
PageInRange == page_state \in 1..total_pages

\* the pager alone keeps the page in range: Prev, Next, Go and the query
\* parameters never leave 1..total_pages
C34_PagerKeepsRange ==
    [][(driver = "ui" /\ PageInRange /\ total_pages' = total_pages)
          => page_state' \in 1..total_pages']_vars

\* C34: after any sequence of pager actions, filter changes and page-size
\* changes, the current page of the list is within 1..total_pages, with
\* total_pages computed from the total for the current filters and page size.
C34_PageInRange ==
    HandlerReturned => PageInRange

\* ---- C35 ----
\* what the request in the URL asks for, read from the whole value
GotoAsked == InQuery(query_params, GotoKey) /\ AllDigits(query_params[GotoKey][1])
GotoTarget == Max(1, Min(total_pages, Num(query_params[GotoKey][1])))
NavAsked(v) == InQuery(query_params, NavKey) /\ query_params[NavKey][1] = v /\ ~GotoAsked

\* one run of the handler serves the request of the URL
ServesRequest ==
    /\ GotoAsked => page_state' = GotoTarget
    /\ (NavAsked(StrPrev) /\ page_state > 1) => page_state' = page_state - 1
    /\ (NavAsked(StrNext) /\ page_state < total_pages) => page_state' = page_state + 1

\* with the values delivered as one-element lists the handler serves them
C35_ListForm ==
    [][(driver = "ui" /\ pc = "nav_run" /\ qp_api = "experimental") => ServesRequest]_vars

\* C35: movie_goto=N with an integer N sets the page to
\* max(1, min(total_pages, N)), and movie_nav=prev|next moves one page,
\* whether the framework delivers the value as a plain string or as a
\* one-element list.
C35_BothForms ==
    [][(driver = "ui" /\ pc = "nav_run") => ServesRequest]_vars

\* ---- C36 ----
RECURSIVE Walk(_, _)
\* what the enumeration yields from page p on: pages are fetched until one
\* comes back empty or start + page_size >= total, and each fetched page
\* gives the ids of its items that pass the title filter
Walk(a, p) ==
    LET st == p * a.page_size
        pg == FetchPage(catalog, st, a.page_size)
        kept == IF a.title_contains # <<>> THEN TitleFilter(pg, Lower(a.title_contains)) ELSE pg
    IN  IF pg = <<>> THEN <<>>
        ELSE YieldIds(kept) \o (IF st + a.page_size >= catalog.total THEN <<>>
                                ELSE Walk(a, p + 1))

\* the enumeration of this run has ended
Enumerated ==
    driver = "cli" /\ args.ids = <<>> /\ pc \in {"loop", "attempt", "done"} /\ HasOp("fetch")

\* the fetch event the step adds to the history, if it adds one
NewFetch == Len(log') > Len(log) /\ log'[Len(log) + 1].op = "fetch"

\* C36: in the CLI enumeration a non-empty fetched page whose items are all
\* dropped by the title filter does not end the enumeration: unless
\* start + page_size >= total the next page is fetched, and the target list
\* holds the matches of every page up to the first empty page or the last one.
C36_FilteredPageGoesOn ==
    /\ [](Enumerated => ids = Walk(args, 0))
    /\ [][(driver = "cli" /\ pc = "fetch" /\ NewFetch
             /\ log'[Len(log) + 1].items # <<>> /\ log'[Len(log) + 1].kept = <<>>
             /\ ~(log'[Len(log) + 1].n + args.page_size >= catalog.total))
          => (pc' = "fetch" /\ page' = page + 1 /\ ids' = ids)]_vars

\* a page that the filter emptied was followed by a page with a match
C36_Witness ==
    /\ Enumerated /\ ids # <<>>
    /\ \E p, q \in 1..Len(log) :
          /\ p < q
          /\ log[p].op = "fetch" /\ log[p].items # <<>> /\ log[p].kept = <<>>
          /\ log[q].op = "fetch" /\ log[q].kept # <<>>

\* ---- C37 ----
\* the identifiers the items of the catalog carry
CatalogKeys ==
    { catalog.items[i].ratingKey : i \in 1..Len(catalog.items) } \ {NoKey}

\* the handlers that enumerate the catalog, up to the end of the handler
Enumerating ==
    /\ driver = "ui"
    /\ ui.event \in {"select_all_results", "select_range", "deselect_range"}
    /\ pc \in {"sel_fetch", "range_fetch", "render_list"}

\* the CLI skips an item without ratingKey: every fetched target is the
\* identifier of a catalog item
C37_CliSkipsMissingKey ==
    (driver = "cli" /\ args.ids = <<>>) => \A i \in 1..Len(ids) : ids[i] \in CatalogKeys

\* C37: a fetched item that carries no ratingKey never contributes an
\* identifier: nothing is added to the CLI target list, and "Select all
\* results" and the range select add no key to the selection that no
\* catalog item has.
C37_NoIdWithoutKey ==
    /\ C37_CliSkipsMissingKey
    /\ Enumerating =>
          \A i \in 1..Len(selected) :
              selected[i].k \in CatalogKeys \/ DictHas(selected0, selected[i].k)

\* ---- C38 ----
RECURSIVE Fetched(_, _)
\* the mapping d after the pages that the history l says were fetched, as
\* the running handler writes them
Fetched(d, l) ==
    IF l = <<>> THEN d
    ELSE IF Head(l).op # "fetch" THEN Fetched(d, Tail(l))
    ELSE Fetched(IF ui.event = "select_all_results"
                 THEN SelectItems(d, Head(l).kept)
                 ELSE MarkItems(d, RangeItems(Head(l).kept, ui.range_from, ui.range_to),
                                ui.select),
                 Tail(l))

\* plex.fetch_items raised inside "Select all results" or a range select
FetchFailed == driver = "ui" /\ pc = "raised"

\* C38: when fetch_items raises part-way through "Select all results" or a
\* range select, the selection keeps what the pages fetched before the
\* failure wrote (no rollback), progress is set to 100, the raising call is
\* the last fetch and no success message follows.
C38_FailureKeepsChanges ==
    FetchFailed =>
        /\ selected = Fetched(selected0, log)
        /\ session[SelectKey(active)] = selected
        /\ Len(log) >= 2
        /\ log[Len(log)] = Ev("progress", "", 100, 0)
        /\ log[Len(log) - 1].op = "fetch_raise"
        /\ \A p \in 1..(Len(log) - 2) : log[p].op \in {"caption", "fetch", "progress"}

\* the first page was written, the second fetch raised
C38_Witness ==
    /\ FetchFailed
    /\ ui.event = "select_all_results"
    /\ \E p \in 1..Len(log) : log[p].op = "fetch" /\ log[p].kept # <<>>
    /\ selected # selected0
    /\ start < catalog.total

C38_WitnessRange ==
    /\ FetchFailed
    /\ ui.event = "deselect_range"
    /\ selected # selected0

\* ---- C39 ----
\* --max-items is unset or 0
NoLimit == driver = "cli" /\ args.max_items \in {None, Some(0)}

\* C39: --max-items 0 behaves like an unset --max-items: the loop leaves
\* only after the last target, so every target of the list is processed (a
\* real run calls each one, a dry run prints each one) and none is skipped
\* before the first update.
C39_ZeroMeansNoLimit ==
    /\ [][(NoLimit /\ pc = "loop" /\ pc' = "done") => idx > Len(ids)]_vars
    /\ [](NoLimit /\ pc = "done" /\ ids # <<>> =>
            /\ RealRun => Attempted = 1..Len(ids)
            /\ args.dry_run => IdsOf("planned") = ids)

\* a real run with --max-items 0 that updated both of its targets
C39_Witness ==
    /\ driver = "cli" /\ pc = "done" /\ RealRun
    /\ args.max_items = Some(0)
    /\ Len(ids) = 2 /\ updated = 2

C39_WitnessDryRun ==
    /\ driver = "cli" /\ pc = "done" /\ args.dry_run
    /\ args.max_items = Some(0)
    /\ Len(IdsOf("planned")) = 2

====
